---- MODULE Spec2Model ----
(***************************************************************************)
(* The record-evaluation pipeline of the job application tracker:          *)
(* src/modules/langgraph_pipeline.py (the six-node workflow and the batch  *)
(* executor LangGraphPipeline.process_batch) and the store operation it    *)
(* uses, JobDatabase.insert_job of src/modules/database.py.                *)
(*                                                                         *)
(* Conventions.                                                            *)
(*  - A Python Optional value is a set with at most one element: None is   *)
(*    {} and a value v is {v}.                                             *)
(*  - A Python dict is a function; a missing key is a missing element of   *)
(*    its DOMAIN.                                                          *)
(*  - Scores with three decimals are integers in thousandths (0.625 is     *)
(*    625).                                                                *)
(*  - Indices are 1-based: chunk position idx of Python is idx + 1 here.   *)
(***************************************************************************)
EXTENDS Integers, Sequences, FiniteSets, TLC

(***************************************************************************)
(* Bounds of the model.                                                    *)
(***************************************************************************)
MaxJobs == 2
MaxCount == 4

(***************************************************************************)
(* Program constants.                                                      *)
(***************************************************************************)
HAMMING_THRESHOLD == 6
WINDOW_DAYS == 60
MIN_DESCRIPTION_LEN == 100
DEFAULT_HEURISTIC_THRESHOLD == 350
DEFAULT_MIN_SCORE == 0
Today == 100

None == {}
Some(v) == {v}
Val(o) == CHOOSE v \in o : TRUE

Min(a, b) == IF a < b THEN a ELSE b
Max(a, b) == IF a > b THEN a ELSE b

(***************************************************************************)
(* dict.get(key, default): the default only when the key is missing.       *)
(***************************************************************************)
DictGet(d, key, default) == IF key \in DOMAIN d THEN d[key] ELSE default

(***************************************************************************)
(* Decimal strings of non-negative integers, as str() writes and int()     *)
(* reads them: the fingerprint travels as such a string.                   *)
(***************************************************************************)
RECURSIVE Str(_)
Str(n) == IF n < 10 THEN <<n>> ELSE Append(Str(n \div 10), n % 10)

RECURSIVE ParseInt(_)
ParseInt(s) == IF Len(s) = 0 THEN 0
          ELSE (10 * ParseInt(SubSeq(s, 1, Len(s) - 1))) + s[Len(s)]

RECURSIVE Xor(_, _)
Xor(a, b) == IF a = 0 /\ b = 0 THEN 0
             ELSE (((a % 2) + (b % 2)) % 2) + (2 * Xor(a \div 2, b \div 2))

RECURSIVE PopCount(_)
PopCount(n) == IF n = 0 THEN 0 ELSE (n % 2) + PopCount(n \div 2)

(***************************************************************************)
(* The postings the inputs are drawn from.  A text stands for the          *)
(* normalized (company, title, description) triple of a posting; the       *)
(* similarity hash of the external simhash library is a fixed function of  *)
(* it.  "A" and "B" are 6 bits apart, "A" and "C" 7 bits, "B" and "C" one  *)
(* bit.  "B" has a description shorter than 100 characters.                *)
(***************************************************************************)
Texts == {"A", "B", "C"}

SimhashValue(text) == CASE text = "A" -> 0
                        [] text = "B" -> 63
                        [] text = "C" -> 127

DescriptionLen(text) == CASE text = "A" -> 250
                          [] text = "B" -> 99
                          [] text = "C" -> 100

(***************************************************************************)
(* The input dicts: every posting has its text; the job_url key may be     *)
(* missing, and two postings may carry the same job_url.                   *)
(***************************************************************************)
Postings == {[text |-> "A", job_url |-> 1],
             [text |-> "B", job_url |-> 2],
             [text |-> "C", job_url |-> 1],
             [text |-> "C"]}

(***************************************************************************)
(* Raw field values.  A value is given by its Python type and by what      *)
(* str(value) returns, a sequence of characters; a posting that carries    *)
(* raw fields has the keys company, title and description, each of which   *)
(* may be missing.                                                         *)
(***************************************************************************)
Alphabet == <<" ", "2", "4", "a", "b", "n", "A", "B", "N">>

CharCode(c) == CHOOSE i \in 1..Len(Alphabet) : Alphabet[i] = c

LowerChar(c) == CASE c = "A" -> "a"
                  [] c = "B" -> "b"
                  [] c = "N" -> "n"
                  [] OTHER -> c

Lower(s) == [i \in 1..Len(s) |-> LowerChar(s[i])]

RECURSIVE Strip(_)
Strip(s) == IF Len(s) = 0 THEN s
            ELSE IF Head(s) = " " THEN Strip(Tail(s))
            ELSE IF s[Len(s)] = " " THEN Strip(SubSeq(s, 1, Len(s) - 1))
            ELSE s

StrValue(s) == [type |-> "str", str |-> s]
NoneValue == [type |-> "NoneType", str |-> <<"N", "o", "n", "e">>]
NaNValue == [type |-> "float", str |-> <<"n", "a", "n">>]
IntValue == [type |-> "int", str |-> <<"4", "2">>]

safe_str(value, default) ==
    IF value.type = "NoneType" THEN default
    ELSE IF value.type = "str" THEN value.str
    ELSE IF Lower(value.str) \in {<<"n", "a", "n">>, <<"n", "o", "n", "e">>, <<"n", "a", "t">>}
         THEN default
         ELSE value.str

RawCompanies == {NoneValue, NaNValue, IntValue,
                 StrValue(<<"A", "b">>), StrValue(<<" ", "A", "B", " ">>)}
RawTitles == {StrValue(<<"B", "a">>), StrValue(<<"b", "a", " ">>)}
RawDescriptions == {StrValue(<<"N", "b">>), StrValue(<<"n", "B">>)}

RawPostings ==
    {[company |-> c, title |-> t, description |-> d] :
        c \in RawCompanies, t \in RawTitles, d \in RawDescriptions}
    \cup {[title |-> t, description |-> d] : t \in RawTitles, d \in RawDescriptions}
    \cup {[company |-> c, description |-> d] : c \in RawCompanies, d \in RawDescriptions}

(***************************************************************************)
(* text = f"{company} {title} {description}" of the three fields, each     *)
(* safe_str(job_data.get(field, "")).lower().strip().                      *)
(***************************************************************************)
FieldText(job, field) ==
    Strip(Lower(safe_str(DictGet(job, field, StrValue(<<>>)), <<>>)))

FingerprintText(job) ==
    FieldText(job, "company") \o <<" ">> \o FieldText(job, "title") \o <<" ">>
        \o FieldText(job, "description")

(***************************************************************************)
(* simhash.Simhash(text).value is a function of the text alone; the        *)
(* positional code of the characters stands for it on raw fields (one      *)
(* value per text of up to nine characters).                               *)
(***************************************************************************)
RECURSIVE SimhashCode(_)
SimhashCode(text) ==
    IF Len(text) = 0 THEN 0
    ELSE SimhashCode(SubSeq(text, 1, Len(text) - 1)) * 10 + CharCode(text[Len(text)])

ComputeSimhashCaseSensitive(job) ==
    IF "text" \in DOMAIN job THEN Str(SimhashValue(job.text))
    ELSE Str(SimhashCode(
             Strip(safe_str(DictGet(job, "company", StrValue(<<>>)), <<>>)) \o <<" ">>
             \o Strip(safe_str(DictGet(job, "title", StrValue(<<>>)), <<>>)) \o <<" ">>
             \o Strip(safe_str(DictGet(job, "description", StrValue(<<>>)), <<>>))))

compute_simhash(job) ==
    IF "text" \in DOMAIN job THEN Str(SimhashValue(job.text))
    ELSE Str(SimhashCode(FingerprintText(job)))

(***************************************************************************)
(* The store: the rows of table jobs.  job_hash is NULL (None) for a row   *)
(* that was never fingerprinted; date_scraped is a day number.             *)
(***************************************************************************)
UPDATEABLE_FIELDS == {"text", "llm_score", "llm_reasoning", "job_hash",
                      "extracted_skills", "matched_skills", "heuristic_score"}

RowIds(rows) == {r.id : r \in rows}

lastrowid(rows) == IF rows = {} THEN 1
                   ELSE 1 + (CHOOSE m \in RowIds(rows) : \A i \in RowIds(rows) : i <= m)

(***************************************************************************)
(* insert_job raises when the dict has no job_url (KeyError), or when the  *)
(* store cannot be written.                                                *)
(***************************************************************************)
InsertRaises(rows, job_data, store_ok) == ~store_ok \/ "job_url" \notin DOMAIN job_data

UpdatedRowOverwritesAll(row, job_data) ==
    [f \in DOMAIN row |-> IF f \in DOMAIN job_data THEN job_data[f] ELSE row[f]]

UpdatedRow(row, job_data) ==
    [f \in DOMAIN row |->
        IF f \in UPDATEABLE_FIELDS /\ f \in DOMAIN job_data THEN job_data[f] ELSE row[f]]

NewRow(rows, job_data) ==
    [id |-> lastrowid(rows),
     job_url |-> job_data.job_url,
     date_scraped |-> Today,
     text |-> job_data.text,
     job_hash |-> job_data.job_hash,
     extracted_skills |-> job_data.extracted_skills,
     matched_skills |-> job_data.matched_skills,
     heuristic_score |-> job_data.heuristic_score,
     llm_score |-> job_data.llm_score,
     llm_reasoning |-> job_data.llm_reasoning]

InsertAlwaysAdds(rows, job_data) == rows \cup {NewRow(rows, job_data)}

insert_job(rows, job_data) ==
    IF \E r \in rows : r.job_url = job_data.job_url
    THEN {IF r.job_url = job_data.job_url THEN UpdatedRow(r, job_data) ELSE r : r \in rows}
    ELSE rows \cup {NewRow(rows, job_data)}

(***************************************************************************)
(* The id insert_job returns: the existing row's or the new one's.         *)
(***************************************************************************)
insert_job_id(rows, job_data) ==
    IF \E r \in rows : r.job_url = job_data.job_url
    THEN (CHOOSE r \in rows : r.job_url = job_data.job_url).id
    ELSE lastrowid(rows)

Hamming(a, b) == PopCount(Xor(a, b))

InWindowIgnored(row) == TRUE

InWindow(row) == row.date_scraped >= Today - WINDOW_DAYS

CheckDuplicateBelowThreshold(job_hash, rows) ==
    \E r \in rows :
        /\ r.job_hash # None
        /\ InWindow(r)
        /\ Hamming(ParseInt(job_hash), ParseInt(Val(r.job_hash))) < HAMMING_THRESHOLD

check_duplicate_in_database(job_hash, rows) ==
    \E r \in rows :
        /\ r.job_hash # None
        /\ InWindow(r)
        /\ Hamming(ParseInt(job_hash), ParseInt(Val(r.job_hash))) <= HAMMING_THRESHOLD

(***************************************************************************)
(* calculate_heuristic_score, in thousandths: round(x, 3) of               *)
(* (matched + 0.5 * partial) / total, ties to even.                        *)
(***************************************************************************)
RoundDivDown(num, den) == num \div den

RoundDiv(num, den) ==
    LET q == num \div den
        r == num % den
    IN  IF 2 * r > den THEN q + 1
        ELSE IF 2 * r < den THEN q
        ELSE IF q % 2 = 0 THEN q ELSE q + 1

calculate_heuristic_score(match_result) ==
    LET total_skills == Len(match_result.matched) + Len(match_result.partial)
                        + Len(match_result.missing)
    IN  IF total_skills = 0 THEN 0
        ELSE RoundDiv(1000 * (2 * Len(match_result.matched) + Len(match_result.partial)),
                      2 * total_skills)

EmptyMatch == [matched |-> <<>>, partial |-> <<>>, missing |-> <<>>]

(***************************************************************************)
(* The workflow: its nodes and its edges (create_pipeline).                *)
(***************************************************************************)
END == "END"
RAISED == "RAISED"
NOT_DISPATCHED == "NOT_DISPATCHED"
BLOCKED == "BLOCKED"

Stages == {"skills_extraction", "skills_matching", "job_scoring"}

RESUME_FILE == "config/resume.txt"
CANDIDATE_SKILLS_FILE == "config/candidate_skills.txt"

AfterDedupAlwaysExtracts(state) == "skills_extraction"

AfterDedup(state) == IF state.is_duplicate THEN END ELSE "skills_extraction"

AfterGate(state) == IF state.should_continue THEN "job_scoring" ELSE END

InitialState ==
    [job_hash |-> None,
     is_duplicate |-> FALSE,
     extracted_skills |-> None,
     match_result |-> None,
     heuristic_score |-> None,
     llm_score |-> None,
     llm_reasoning |-> None,
     error |-> None,
     should_continue |-> TRUE]

(***************************************************************************)
(* What the external model endpoint may answer.  The two-step stages       *)
(* (extraction, matching) try the structured call and, when it raises, the *)
(* JSON call, whose content may validate, not validate, or whose call may  *)
(* raise as well.                                                          *)
(***************************************************************************)
DualReplies == {"parsed", "fallback_valid", "fallback_invalid", "fallback_raises"}

DualCallsRetried(stage, reply) ==
    IF reply = "parsed" THEN <<stage>> ELSE <<stage, stage, stage>>

DualCalls(stage, reply) ==
    IF reply = "parsed" THEN <<stage>> ELSE <<stage, stage>>

(***************************************************************************)
(* The ValidationError branch of a two-step stage (its logger.warning),    *)
(* recorded next to the calls.                                             *)
(***************************************************************************)
Malformed(mark, reply) == IF reply = "fallback_invalid" THEN <<mark>> ELSE <<>>

(***************************************************************************)
(* The outer except branch of a model stage (its logger.error): the call,  *)
(* and for a two-step stage the fallback call too, raised.                 *)
(***************************************************************************)
CallFailed(mark, raised) == IF raised THEN <<mark>> ELSE <<>>

ExtractedSkills == <<"python", "sql", "docker", "go">>

MatchOf(job_skills) ==
    [matched |-> SubSeq(job_skills, 1, 2),
     partial |-> SubSeq(job_skills, 3, 3),
     missing |-> SubSeq(job_skills, 4, Len(job_skills))]

(***************************************************************************)
(* The relevance reply: a raised call, or a text in which "SCORE: n" and   *)
(* "REASONING: ..." are each present or not.                               *)
(***************************************************************************)
ScoreReplies ==
    {[raises |-> TRUE, score |-> None, reasoning |-> None],
     [raises |-> FALSE, score |-> Some(9), reasoning |-> Some("strong fit")],
     [raises |-> FALSE, score |-> None, reasoning |-> None]}

ParsedScoreUnclamped(reply) ==
    IF reply.score = None THEN 0 ELSE Val(reply.score)

ParsedScore(reply) ==
    IF reply.score = None THEN 0 ELSE Max(1, Min(10, Val(reply.score)))

ParsedReasoning(reply) ==
    IF reply.reasoning = None THEN "Unable to parse response" ELSE Val(reply.reasoning)

(***************************************************************************)
(* The batch result of one posting.                                        *)
(***************************************************************************)
Result(status, reason, heuristic_score, llm_score, skills_extracted, skills_matched) ==
    [status |-> status,
     reason |-> reason,
     heuristic_score |-> heuristic_score,
     llm_score |-> llm_score,
     skills_extracted |-> skills_extracted,
     skills_matched |-> skills_matched]

BatchDuplicateResult == Result("duplicate", <<"Duplicate in current batch", <<>>>>, 0, 0, 0, 0)

ExceptionResult(exc) == Result("error", <<exc, <<>>>>, 0, 0, 0, 0)

MissingResult ==
    Result("error", <<"Internal ordering error: missing chunk result", <<>>>>, 0, 0, 0, 0)

Truthy(opt) == opt # None /\ Val(opt) # ""

OrZero(opt) == IF opt = None THEN 0 ELSE Val(opt)

(***************************************************************************)
(* _format_result compares a score that is None, or with a threshold that  *)
(* is None, only when it reaches that comparison; the comparison raises.   *)
(***************************************************************************)
FormatRaises(state, min_sc, threshold) ==
    /\ ~state.is_duplicate
    /\ ~Truthy(state.error)
    /\ \/ state.heuristic_score = None
       \/ threshold = None
       \/ /\ Val(state.heuristic_score) >= Val(threshold)
          /\ state.llm_score = None

FormatStatusNoError(state, min_sc, threshold) ==
    IF state.is_duplicate THEN "duplicate"
    ELSE IF OrZero(state.heuristic_score) < OrZero(threshold) THEN "rejected"
    ELSE IF OrZero(state.llm_score) < min_sc THEN "low_score"
    ELSE "accepted"

FormatStatusLowAtMinimum(state, min_sc, threshold) ==
    IF state.is_duplicate THEN "duplicate"
    ELSE IF Truthy(state.error) THEN "error"
    ELSE IF Val(state.heuristic_score) < Val(threshold) THEN "rejected"
    ELSE IF Val(state.llm_score) <= min_sc THEN "low_score"
    ELSE "accepted"

FormatStatus(state, min_sc, threshold) ==
    IF state.is_duplicate THEN "duplicate"
    ELSE IF Truthy(state.error) THEN "error"
    ELSE IF Val(state.heuristic_score) < Val(threshold) THEN "rejected"
    ELSE IF Val(state.llm_score) < min_sc THEN "low_score"
    ELSE "accepted"

(***************************************************************************)
(* The reason: a text and the values formatted into it (a value that is    *)
(* None is formatted as such).                                             *)
(***************************************************************************)
FormatReason(state, status, threshold) ==
    CASE status = "duplicate" -> <<"Duplicate in database", <<>>>>
      [] status = "error" -> <<Val(state.error), <<>>>>
      [] status = "rejected" ->
            <<"Heuristic score too low", <<state.heuristic_score, threshold>>>>
      [] status = "low_score" -> <<"LLM score below minimum", <<state.llm_score>>>>
      [] status = "accepted" -> <<"High score", <<state.llm_score>>>>

format_result(state, min_sc, threshold) ==
    LET status == FormatStatus(state, min_sc, threshold)
    IN  Result(status,
               FormatReason(state, status, threshold),
               OrZero(state.heuristic_score),
               OrZero(state.llm_score),
               IF state.extracted_skills = None THEN 0 ELSE Len(Val(state.extracted_skills)),
               IF state.match_result = None THEN 0
               ELSE Len(Val(state.match_result).matched))

(***************************************************************************)
(* State.                                                                  *)
(*   jobs, min_score, batch_size, heuristic_threshold: the arguments of    *)
(*     process_batch (the job dicts are mutated by it);                    *)
(*   api_key, files: the configuration the stages read;                    *)
(*   seen_hashes, all_results, chunk_results, indexed_states: the          *)
(*     executor's data; pc its position;                                   *)
(*   wf: per posting, the node its workflow task is at, its pipeline state *)
(*     and the exception the task ended with, if any;                      *)
(*   db: the rows of the store;                                            *)
(*   events: per posting, the nodes entered and the external calls made;   *)
(*   done_order: the postings whose task has ended, in order of ending.    *)
(***************************************************************************)
VARIABLES jobs, min_score, batch_size, heuristic_threshold, api_key, files,
          seen_hashes, all_results, chunk_results, indexed_states, pc,
          wf, db, events, done_order

vars == <<jobs, min_score, batch_size, heuristic_threshold, api_key, files,
          seen_hashes, all_results, chunk_results, indexed_states, pc,
          wf, db, events, done_order>>

inputs == <<min_score, batch_size, heuristic_threshold, api_key, files>>

MinScores == {0, 5, 10}
Thresholds == {Some(0), Some(625), None}
ApiKeyConfigs == {[st \in Stages |-> TRUE]}
FileConfigs == {{RESUME_FILE, CANDIDATE_SKILLS_FILE}}

StoredRow(id, url, text, date) ==
    [id |-> id, job_url |-> url, date_scraped |-> date, text |-> text,
     job_hash |-> Some(Str(SimhashValue(text))),
     extracted_skills |-> Some(<<>>), matched_skills |-> <<>>,
     heuristic_score |-> Some(0), llm_score |-> 7, llm_reasoning |-> "earlier run"]

InitialStores == {{}, {StoredRow(4, 1, "A", Today - 10)}}

Init ==
    /\ jobs \in UNION {[1..n -> Postings] : n \in 0..MaxJobs}
    /\ min_score \in MinScores
    /\ batch_size \in 1..MaxJobs
    /\ heuristic_threshold \in Thresholds
    /\ api_key \in ApiKeyConfigs
    /\ files \in FileConfigs
    /\ seen_hashes \in {{}, {Str(SimhashValue("A"))}}
    /\ all_results = <<>>
    /\ chunk_results = <<>>
    /\ indexed_states = <<>>
    /\ pc = "start"
    /\ wf = [g \in 1..Len(jobs) |-> [node |-> NOT_DISPATCHED, state |-> InitialState, exc |-> None]]
    /\ db \in InitialStores
    /\ events = [g \in 1..Len(jobs) |-> <<>>]
    /\ done_order = <<>>

(***************************************************************************)
(* process_batch, entry: the fingerprint set is emptied.  With no job the  *)
(* chunk loop is skipped and the summary divides by len(jobs).             *)
(***************************************************************************)
StartKeepsFingerprints ==
    /\ pc = "start"
    /\ seen_hashes' = seen_hashes
    /\ all_results' = <<>>
    /\ pc' = IF Len(jobs) = 0 THEN "raised" ELSE "prepare"
    /\ UNCHANGED <<jobs, inputs, chunk_results, indexed_states, wf, db, events, done_order>>

Start ==
    /\ pc = "start"
    /\ seen_hashes' = {}
    /\ all_results' = <<>>
    /\ pc' = IF Len(jobs) = 0 THEN "raised" ELSE "prepare"
    /\ UNCHANGED <<jobs, inputs, chunk_results, indexed_states, wf, db, events, done_order>>

ChunkStart == Len(all_results)

ChunkLen == Min(batch_size, Len(jobs) - ChunkStart)

TaggedJobWithoutMinScore(job, min_sc, threshold) ==
    ("_heuristic_threshold" :> threshold) @@ job

TaggedJob(job, min_sc, threshold) ==
    ("_min_score" :> min_sc @@ "_heuristic_threshold" :> threshold) @@ job

(***************************************************************************)
(* self.seen_hashes.add(job_hash)                                          *)
(***************************************************************************)
ClaimNothing(seen, job_hash) == seen

Claimed(seen, job_hash) == seen \cup {job_hash}

(***************************************************************************)
(* The pre-dispatch loop of one chunk, from position idx on: seen is the   *)
(* fingerprint set, results the chunk's result slots, indexed the          *)
(* positions handed to the workflow.                                       *)
(***************************************************************************)
RECURSIVE ScanChunk(_, _, _, _, _, _)
ScanChunk(idx, n, start, seen, results, indexed) ==
    IF idx > n THEN [seen |-> seen, results |-> results, indexed |-> indexed]
    ELSE LET job_hash == compute_simhash(jobs[start + idx])
         IN  IF job_hash \in seen
             THEN ScanChunk(idx + 1, n, start, seen,
                            [results EXCEPT ![idx] = Some(BatchDuplicateResult)], indexed)
             ELSE ScanChunk(idx + 1, n, start, Claimed(seen, job_hash),
                            results, Append(indexed, idx))

PrepareChunk ==
    /\ pc = "prepare"
    /\ LET start == ChunkStart
           n == ChunkLen
           scan == ScanChunk(1, n, start, seen_hashes, [idx \in 1..n |-> None], <<>>)
           dispatched == {start + scan.indexed[k] : k \in 1..Len(scan.indexed)}
       IN  /\ jobs' = [g \in 1..Len(jobs) |->
                          IF g > start /\ g <= start + n
                          THEN TaggedJob(jobs[g], min_score, heuristic_threshold)
                          ELSE jobs[g]]
           /\ seen_hashes' = scan.seen
           /\ chunk_results' = scan.results
           /\ indexed_states' = scan.indexed
           /\ wf' = [g \in 1..Len(jobs) |->
                        IF g \in dispatched
                        THEN [node |-> "simhash_deduplication", state |-> InitialState,
                              exc |-> None]
                        ELSE wf[g]]
    /\ pc' = "gather"
    /\ UNCHANGED <<inputs, all_results, db, events, done_order>>

(***************************************************************************)
(* The nodes, as functions of the pipeline state and of what the           *)
(* environment answers.                                                    *)
(***************************************************************************)
FailedKeepsFlag(state, message) == [state EXCEPT !.error = Some(message)]

Failed(state, message) ==
    [state EXCEPT !.error = Some(message), !.should_continue = FALSE]

DedupTreatsFailureAsNew(state, job, rows, store_ok) ==
    LET hashed == [state EXCEPT !.job_hash = Some(compute_simhash(job))]
    IN  IF store_ok /\ check_duplicate_in_database(compute_simhash(job), rows)
        THEN [hashed EXCEPT !.is_duplicate = TRUE, !.should_continue = FALSE]
        ELSE [hashed EXCEPT !.is_duplicate = FALSE, !.should_continue = TRUE]

simhash_deduplication(state, job, rows, store_ok) ==
    LET hashed == [state EXCEPT !.job_hash = Some(compute_simhash(job))]
    IN  IF ~store_ok
        THEN Failed(hashed, "Deduplication failed: unable to open database file")
        ELSE IF check_duplicate_in_database(compute_simhash(job), rows)
        THEN [hashed EXCEPT !.is_duplicate = TRUE, !.should_continue = FALSE]
        ELSE [hashed EXCEPT !.is_duplicate = FALSE, !.should_continue = TRUE]

DescriptionTooShortInclusive(job) == DescriptionLen(job.text) <= MIN_DESCRIPTION_LEN

DescriptionTooShort(job) == DescriptionLen(job.text) < MIN_DESCRIPTION_LEN

SkillsExtractionPropagates(state, job, client, reply) ==
    IF ~state.should_continue THEN state
    ELSE IF DescriptionTooShort(job) THEN [state EXCEPT !.extracted_skills = Some(<<>>)]
    ELSE IF ~client THEN Failed(state, "LLM client not configured")
    ELSE IF reply \in {"fallback_raises", "fallback_invalid"}
    THEN Failed(state, "Skills extraction failed: Connection error.")
    ELSE [state EXCEPT !.extracted_skills = Some(ExtractedSkills)]

skills_extraction(state, job, client, reply) ==
    IF ~state.should_continue THEN state
    ELSE IF DescriptionTooShort(job) THEN [state EXCEPT !.extracted_skills = Some(<<>>)]
    ELSE IF ~client THEN Failed(state, "LLM client not configured")
    ELSE IF reply = "fallback_raises"
    THEN Failed(state, "Skills extraction failed: Connection error.")
    ELSE IF reply = "fallback_invalid" THEN [state EXCEPT !.extracted_skills = Some(<<>>)]
    ELSE [state EXCEPT !.extracted_skills = Some(ExtractedSkills)]

ExtractionCalls(state, job, client, reply) ==
    IF state.should_continue /\ ~DescriptionTooShort(job) /\ client
    THEN DualCalls("llm:skills_extraction", reply)
         \o Malformed("malformed:skills_extraction", reply)
         \o CallFailed("failed:skills_extraction", reply = "fallback_raises")
    ELSE <<>>

NoSkills(state) == state.extracted_skills = None \/ Val(state.extracted_skills) = <<>>

SkillsMatchingDegradesOnFailure(state, client, reply) ==
    IF ~state.should_continue THEN state
    ELSE IF NoSkills(state)
    THEN [state EXCEPT !.match_result = Some(EmptyMatch), !.heuristic_score = Some(0)]
    ELSE IF ~client THEN Failed(state, "LLM client not configured")
    ELSE LET match_result == IF reply \in {"fallback_invalid", "fallback_raises"}
                             THEN EmptyMatch
                             ELSE MatchOf(Val(state.extracted_skills))
         IN  [state EXCEPT !.match_result = Some(match_result),
                           !.heuristic_score = Some(calculate_heuristic_score(match_result))]

SkillsMatchingWithoutClientCheck(state, client, reply) ==
    IF ~state.should_continue THEN state
    ELSE IF NoSkills(state)
    THEN [state EXCEPT !.match_result = Some(EmptyMatch), !.heuristic_score = Some(0)]
    ELSE IF reply = "fallback_raises"
    THEN Failed(state, "Skills matching failed: Connection error.")
    ELSE LET match_result == IF reply = "fallback_invalid" THEN EmptyMatch
                             ELSE MatchOf(Val(state.extracted_skills))
         IN  [state EXCEPT !.match_result = Some(match_result),
                           !.heuristic_score = Some(calculate_heuristic_score(match_result))]

SkillsMatchingIgnoresFlag(state, client, reply) ==
    IF NoSkills(state)
    THEN [state EXCEPT !.match_result = Some(EmptyMatch), !.heuristic_score = Some(0)]
    ELSE IF ~client THEN Failed(state, "LLM client not configured")
    ELSE IF reply = "fallback_raises"
    THEN Failed(state, "Skills matching failed: Connection error.")
    ELSE LET match_result == IF reply = "fallback_invalid" THEN EmptyMatch
                             ELSE MatchOf(Val(state.extracted_skills))
         IN  [state EXCEPT !.match_result = Some(match_result),
                           !.heuristic_score = Some(calculate_heuristic_score(match_result))]

skills_matching(state, client, reply) ==
    IF ~state.should_continue THEN state
    ELSE IF NoSkills(state)
    THEN [state EXCEPT !.match_result = Some(EmptyMatch), !.heuristic_score = Some(0)]
    ELSE IF ~client THEN Failed(state, "LLM client not configured")
    ELSE IF reply = "fallback_raises"
    THEN Failed(state, "Skills matching failed: Connection error.")
    ELSE LET match_result == IF reply = "fallback_invalid" THEN EmptyMatch
                             ELSE MatchOf(Val(state.extracted_skills))
         IN  [state EXCEPT !.match_result = Some(match_result),
                           !.heuristic_score = Some(calculate_heuristic_score(match_result))]

MatchingCalls(state, client, reply) ==
    IF state.should_continue /\ ~NoSkills(state) /\ client
    THEN DualCalls("llm:skills_matching", reply)
         \o Malformed("malformed:skills_matching", reply)
         \o CallFailed("failed:skills_matching", reply = "fallback_raises")
    ELSE <<>>

GateThreshold(job) == DictGet(job, "_heuristic_threshold", Some(DEFAULT_HEURISTIC_THRESHOLD))

(***************************************************************************)
(* heuristic_filter has no exception handler: comparing with None raises   *)
(* out of the workflow.                                                    *)
(***************************************************************************)
GateRaises(state, job) ==
    state.should_continue /\ (state.heuristic_score = None \/ GateThreshold(job) = None)

GatePassesStrictly(heuristic_score, heuristic_threshold_) ==
    heuristic_score > heuristic_threshold_

GatePassesAlways(heuristic_score, heuristic_threshold_) == TRUE

GatePasses(heuristic_score, heuristic_threshold_) == ~(heuristic_score < heuristic_threshold_)

heuristic_filter(state, job) ==
    IF ~state.should_continue THEN state
    ELSE [state EXCEPT !.should_continue =
              GatePasses(Val(state.heuristic_score), Val(GateThreshold(job)))]

JobScoringWithoutClientCheck(state, client, resume_exists, reply) ==
    IF ~state.should_continue THEN state
    ELSE IF ~resume_exists THEN Failed(state, "Resume file not found")
    ELSE IF reply.raises THEN Failed(state, "Job scoring failed: Connection error.")
    ELSE [state EXCEPT !.llm_score = Some(ParsedScore(reply)),
                       !.llm_reasoning = Some(ParsedReasoning(reply))]

JobScoringIgnoresResume(state, client, resume_exists, reply) ==
    IF ~state.should_continue THEN state
    ELSE IF ~client THEN Failed(state, "LLM client not configured")
    ELSE IF reply.raises THEN Failed(state, "Job scoring failed: Connection error.")
    ELSE [state EXCEPT !.llm_score = Some(ParsedScore(reply)),
                       !.llm_reasoning = Some(ParsedReasoning(reply))]

JobScoringFailsWithZero(state, client, resume_exists, reply) ==
    IF ~state.should_continue THEN state
    ELSE IF ~client \/ ~resume_exists \/ reply.raises
    THEN [Failed(state, "Job scoring failed") EXCEPT !.llm_score = Some(0),
                                                     !.llm_reasoning = Some("")]
    ELSE [state EXCEPT !.llm_score = Some(ParsedScore(reply)),
                       !.llm_reasoning = Some(ParsedReasoning(reply))]

job_scoring(state, client, resume_exists, reply) ==
    IF ~state.should_continue THEN state
    ELSE IF ~client THEN Failed(state, "LLM client not configured")
    ELSE IF ~resume_exists THEN Failed(state, "Resume file not found")
    ELSE IF reply.raises THEN Failed(state, "Job scoring failed: Connection error.")
    ELSE [state EXCEPT !.llm_score = Some(ParsedScore(reply)),
                       !.llm_reasoning = Some(ParsedReasoning(reply))]

ScoringCalls(state, client, resume_exists) ==
    IF state.should_continue /\ client /\ resume_exists THEN <<"llm:job_scoring">> ELSE <<>>

ScoringFailure(state, client, resume_exists, reply) ==
    IF ScoringCalls(state, client, resume_exists) # <<>>
    THEN CallFailed("failed:job_scoring", reply.raises) ELSE <<>>

(***************************************************************************)
(* skills_matching reads the candidate skill list first: a missing file is *)
(* logged as a warning and the list is empty.                              *)
(***************************************************************************)
SkillsFileWarning(state, skills_file_exists) ==
    IF state.should_continue /\ ~skills_file_exists
    THEN <<"warn:candidate_skills_missing">> ELSE <<>>

SaveMinScore(job) == DictGet(job, "_min_score", DEFAULT_MIN_SCORE)

(***************************************************************************)
(* save_job reaches insert_job unless the score is below the minimum or    *)
(* the comparison raises (llm_score None): every exception is swallowed.   *)
(***************************************************************************)
SaveInsertsAboveMinimum(state, job) ==
    state.llm_score # None /\ Val(state.llm_score) > SaveMinScore(job)

SaveInserts(state, job) ==
    state.llm_score # None /\ ~(Val(state.llm_score) < SaveMinScore(job))

job_record(state, job) ==
    ("job_hash" :> state.job_hash
     @@ "extracted_skills" :> state.extracted_skills
     @@ "matched_skills" :> (IF state.match_result = None THEN <<>>
                             ELSE Val(state.match_result).matched)
     @@ "heuristic_score" :> state.heuristic_score
     @@ "llm_score" :> Val(state.llm_score)
     @@ "llm_reasoning" :> (IF state.llm_reasoning = None THEN "" ELSE Val(state.llm_reasoning)))
    @@ [k \in DOMAIN job \ {"_min_score", "_heuristic_threshold"} |-> job[k]]

(***************************************************************************)
(* One step of the workflow task of posting g: the node's new state, the   *)
(* node the edges lead to, the calls it made and the rows it left.         *)
(***************************************************************************)
AdvanceReleasesFingerprint(g, node, state, exc, made, rows) ==
    /\ wf' = [wf EXCEPT ![g] = [node |-> node, state |-> state, exc |-> exc]]
    /\ events' = [events EXCEPT ![g] = @ \o made]
    /\ db' = rows
    /\ done_order' = IF node \in {END, RAISED} THEN Append(done_order, g) ELSE done_order
    /\ seen_hashes' = seen_hashes \ {compute_simhash(jobs[g])}
    /\ UNCHANGED <<jobs, inputs, all_results, chunk_results, indexed_states, pc>>

Advance(g, node, state, exc, made, rows) ==
    /\ wf' = [wf EXCEPT ![g] = [node |-> node, state |-> state, exc |-> exc]]
    /\ events' = [events EXCEPT ![g] = @ \o made]
    /\ db' = rows
    /\ done_order' = IF node \in {END, RAISED} THEN Append(done_order, g) ELSE done_order
    /\ UNCHANGED <<jobs, inputs, seen_hashes, all_results, chunk_results, indexed_states, pc>>

(***************************************************************************)
(* The model calls run in worker threads (asyncio.to_thread): a task whose *)
(* call does not return keeps its thread, not the event loop.              *)
(***************************************************************************)
AtUnlessACallBlocks(g, node) ==
    /\ pc = "gather"
    /\ wf[g].node = node
    /\ \A h \in 1..Len(jobs) : wf[h].node # BLOCKED

At(g, node) == pc = "gather" /\ wf[g].node = node

Dedup(g) ==
    /\ At(g, "simhash_deduplication")
    /\ \E store_ok \in BOOLEAN :
          LET state == simhash_deduplication(wf[g].state, jobs[g], db, store_ok)
          IN  Advance(g, AfterDedup(state), state, None,
                      <<"simhash_deduplication">> \o (IF store_ok THEN <<"db:select">> ELSE <<>>),
                      db)

Extract(g) ==
    /\ At(g, "skills_extraction")
    /\ \E reply \in DualReplies :
          LET client == api_key["skills_extraction"]
          IN  Advance(g, "skills_matching",
                      skills_extraction(wf[g].state, jobs[g], client, reply), None,
                      <<"skills_extraction">>
                          \o ExtractionCalls(wf[g].state, jobs[g], client, reply),
                      db)

Match(g) ==
    /\ At(g, "skills_matching")
    /\ \E reply \in DualReplies :
          LET client == api_key["skills_matching"]
          IN  Advance(g, "heuristic_filter",
                      skills_matching(wf[g].state, client, reply), None,
                      <<"skills_matching">>
                          \o SkillsFileWarning(wf[g].state, CANDIDATE_SKILLS_FILE \in files)
                          \o MatchingCalls(wf[g].state, client, reply),
                      db)

Gate(g) ==
    /\ At(g, "heuristic_filter")
    /\ IF GateRaises(wf[g].state, jobs[g])
       THEN Advance(g, RAISED, wf[g].state,
                    Some("'<' not supported between instances of 'float' and 'NoneType'"),
                    <<"heuristic_filter">>, db)
       ELSE LET state == heuristic_filter(wf[g].state, jobs[g])
            IN  Advance(g, AfterGate(state), state, None, <<"heuristic_filter">>, db)

Score(g) ==
    /\ At(g, "job_scoring")
    /\ \E reply \in ScoreReplies :
          LET client == api_key["job_scoring"]
              resume_exists == RESUME_FILE \in files
          IN  Advance(g, "save_job",
                      job_scoring(wf[g].state, client, resume_exists, reply), None,
                      <<"job_scoring">>
                          \o ScoringCalls(wf[g].state, client, resume_exists)
                          \o ScoringFailure(wf[g].state, client, resume_exists, reply),
                      db)

Save(g) ==
    /\ At(g, "save_job")
    /\ \E store_ok \in BOOLEAN :
          LET record == job_record(wf[g].state, jobs[g])
              inserts == /\ SaveInserts(wf[g].state, jobs[g])
                         /\ ~InsertRaises(db, record, store_ok)
          IN  Advance(g, END, wf[g].state, None,
                      <<"save_job">> \o (IF inserts THEN <<"db:insert">> ELSE <<>>),
                      IF inserts THEN insert_job(db, record) ELSE db)

(***************************************************************************)
(* The first model call the stage a task is at would make, if any.         *)
(***************************************************************************)
PendingCall(g) ==
    CASE wf[g].node = "skills_extraction" ->
            IF ExtractionCalls(wf[g].state, jobs[g], api_key["skills_extraction"], "parsed")
               # <<>>
            THEN <<"llm:skills_extraction">> ELSE <<>>
      [] wf[g].node = "skills_matching" ->
            IF MatchingCalls(wf[g].state, api_key["skills_matching"], "parsed") # <<>>
            THEN <<"llm:skills_matching">> ELSE <<>>
      [] wf[g].node = "job_scoring" ->
            ScoringCalls(wf[g].state, api_key["job_scoring"], RESUME_FILE \in files)
      [] OTHER -> <<>>

(***************************************************************************)
(* The stage makes its model call and the call never returns: no timeout   *)
(* is set, and the task stays in the stage.                                *)
(***************************************************************************)
Hang(g) ==
    /\ pc = "gather"
    /\ PendingCall(g) # <<>>
    /\ Advance(g, BLOCKED, wf[g].state, None, <<wf[g].node>> \o PendingCall(g), db)

(***************************************************************************)
(* asyncio.gather returns the outcomes in the order of its arguments: the  *)
(* k-th outcome is that of the k-th dispatched position.                   *)
(***************************************************************************)
AsCompleted(indexed, start, order) ==
    LET ended == SelectSeq(order, LAMBDA g : g > start)
    IN  [k \in 1..Len(indexed) |-> wf[ended[k]]]

final_states(indexed, start, order) ==
    [k \in 1..Len(indexed) |-> wf[start + indexed[k]]]

(***************************************************************************)
(* gather is called with return_exceptions=True: an exception of a task is *)
(* an outcome in the list, never an exception of gather.                   *)
(***************************************************************************)
GatherRaisesFirst(finals) == \E k \in DOMAIN finals : finals[k].exc # None

GatherRaises(finals) == FALSE

ResultSlot(indexed, k) == indexed[k]

OutcomeResult(final_state, min_sc, threshold) ==
    IF final_state.exc # None THEN ExceptionResult(Val(final_state.exc))
    ELSE format_result(final_state.state, min_sc, threshold)

MapBack(results, indexed, finals, min_sc, threshold) ==
    [idx \in DOMAIN results |->
        IF \E k \in 1..Len(indexed) : ResultSlot(indexed, k) = idx
        THEN LET k == CHOOSE j \in 1..Len(indexed) : ResultSlot(indexed, j) = idx
             IN  Some(OutcomeResult(finals[k], min_sc, threshold))
        ELSE results[idx]]

FillMissing(results) ==
    [idx \in DOMAIN results |->
        IF results[idx] = None THEN MissingResult ELSE Val(results[idx])]

ChunkDoneWithoutAwait == TRUE

ChunkDone ==
    \A k \in 1..Len(indexed_states) : wf[ChunkStart + indexed_states[k]].node \in {END, RAISED}

(***************************************************************************)
(* The chunk's outcomes are mapped back and the chunk is appended; after   *)
(* the last chunk process_batch returns.  An exception of _format_result   *)
(* leaves process_batch.                                                   *)
(***************************************************************************)
CollectChunk ==
    /\ pc = "gather"
    /\ ChunkDone
    /\ LET finals == final_states(indexed_states, ChunkStart, done_order)
           raises == \/ GatherRaises(finals)
                     \/ \E k \in 1..Len(indexed_states) :
                            /\ finals[k].exc = None
                            /\ FormatRaises(finals[k].state, min_score, heuristic_threshold)
       IN  IF raises
           THEN /\ pc' = "raised"
                /\ UNCHANGED <<all_results, chunk_results>>
           ELSE LET filled == FillMissing(MapBack(chunk_results, indexed_states, finals,
                                                  min_score, heuristic_threshold))
                IN  /\ all_results' = all_results \o filled
                    /\ chunk_results' = [idx \in DOMAIN filled |-> Some(filled[idx])]
                    /\ pc' = IF Len(all_results') = Len(jobs) THEN "returned" ELSE "prepare"
    /\ UNCHANGED <<jobs, inputs, seen_hashes, indexed_states, wf, db, events, done_order>>

Next ==
    \/ Start
    \/ PrepareChunk
    \/ \E g \in 1..Len(jobs) :
          \/ Dedup(g)
          \/ Extract(g)
          \/ Match(g)
          \/ Gate(g)
          \/ Score(g)
          \/ Save(g)
          \/ Hang(g)
    \/ CollectChunk

Spec == Init /\ [][Next]_vars

(***************************************************************************)
(* The same program under every credential configuration: each stage has   *)
(* an API key or not (get_client_for_stage returns None without one).      *)
(***************************************************************************)
CredentialConfigs == [Stages -> BOOLEAN]

InitConfig ==
    /\ jobs \in UNION {[1..n -> Postings] : n \in 0..MaxJobs}
    /\ min_score \in {0, 10}
    /\ batch_size \in 1..MaxJobs
    /\ heuristic_threshold \in {Some(0), Some(625)}
    /\ api_key \in CredentialConfigs
    /\ files \in FileConfigs
    /\ seen_hashes = {}
    /\ all_results = <<>>
    /\ chunk_results = <<>>
    /\ indexed_states = <<>>
    /\ pc = "start"
    /\ wf = [g \in 1..Len(jobs) |-> [node |-> NOT_DISPATCHED, state |-> InitialState, exc |-> None]]
    /\ db = {}
    /\ events = [g \in 1..Len(jobs) |-> <<>>]
    /\ done_order = <<>>

SpecConfig == InitConfig /\ [][Next]_vars

(***************************************************************************)
(* The same program with the resume file and the candidate skill list      *)
(* present or not, and the job_scoring credential present or not.          *)
(***************************************************************************)
FilePresence == SUBSET {RESUME_FILE, CANDIDATE_SKILLS_FILE}

InitFiles ==
    /\ jobs \in UNION {[1..n -> Postings] : n \in 0..MaxJobs}
    /\ min_score = 0
    /\ batch_size \in 1..MaxJobs
    /\ heuristic_threshold \in {Some(0), Some(625)}
    /\ api_key \in {[st \in Stages |-> TRUE], [st \in Stages |-> st # "job_scoring"]}
    /\ files \in FilePresence
    /\ seen_hashes = {}
    /\ all_results = <<>>
    /\ chunk_results = <<>>
    /\ indexed_states = <<>>
    /\ pc = "start"
    /\ wf = [g \in 1..Len(jobs) |-> [node |-> NOT_DISPATCHED, state |-> InitialState, exc |-> None]]
    /\ db = {}
    /\ events = [g \in 1..Len(jobs) |-> <<>>]
    /\ done_order = <<>>

SpecFiles == InitFiles /\ [][Next]_vars

(***************************************************************************)
(* Scheduling.  The event loop runs every coroutine that is ready: the     *)
(* process_batch coroutine, and each task whose stage can proceed.  A call *)
(* that is made either returns (the stage's step) or never does (Hang): a  *)
(* task is not owed a step once its call hangs.                            *)
(***************************************************************************)
Run(g) ==
    /\ g \in 1..Len(jobs)
    /\ \/ Dedup(g)
       \/ Extract(g)
       \/ Match(g)
       \/ Gate(g)
       \/ Score(g)
       \/ Save(g)

Fairness ==
    /\ WF_vars(Start)
    /\ WF_vars(PrepareChunk)
    /\ WF_vars(CollectChunk)
    /\ \A g \in 1..MaxJobs : WF_vars(Run(g))

InitLive ==
    /\ jobs \in UNION {[1..n -> Postings] : n \in 0..MaxJobs}
    /\ min_score = 0
    /\ batch_size = MaxJobs
    /\ heuristic_threshold \in {Some(0), None}
    /\ api_key \in ApiKeyConfigs
    /\ files \in FileConfigs
    /\ seen_hashes = {}
    /\ all_results = <<>>
    /\ chunk_results = <<>>
    /\ indexed_states = <<>>
    /\ pc = "start"
    /\ wf = [g \in 1..Len(jobs) |-> [node |-> NOT_DISPATCHED, state |-> InitialState, exc |-> None]]
    /\ db = {}
    /\ events = [g \in 1..Len(jobs) |-> <<>>]
    /\ done_order = <<>>

LiveSpec == InitLive /\ [][Next]_vars /\ Fairness

(***************************************************************************)
(* The fingerprints of raw fields: one chunk of postings whose company,    *)
(* title and description are raw values goes through the pre-dispatch loop *)
(* and the first node, which both call compute_simhash.  The later nodes   *)
(* read the description's text and are not part of this specification.     *)
(***************************************************************************)
InitHash ==
    /\ jobs \in UNION {[1..n -> RawPostings] : n \in 0..MaxJobs}
    /\ min_score = 0
    /\ batch_size = MaxJobs
    /\ heuristic_threshold = Some(0)
    /\ api_key \in ApiKeyConfigs
    /\ files \in FileConfigs
    /\ seen_hashes = {}
    /\ all_results = <<>>
    /\ chunk_results = <<>>
    /\ indexed_states = <<>>
    /\ pc = "start"
    /\ wf = [g \in 1..Len(jobs) |-> [node |-> NOT_DISPATCHED, state |-> InitialState, exc |-> None]]
    /\ db = {}
    /\ events = [g \in 1..Len(jobs) |-> <<>>]
    /\ done_order = <<>>

NextHash ==
    \/ Start
    \/ PrepareChunk
    \/ \E g \in 1..Len(jobs) : Dedup(g)

SpecHash == InitHash /\ [][NextHash]_vars

(***************************************************************************)
(* The heuristic score of any match result: a task stands in               *)
(* skills_matching where the model has answered and state["match_result"]  *)
(* is assigned, with up to MaxCount skills in each of the three lists; the  *)
(* score is computed and the gate reads it.                                *)
(***************************************************************************)
SkillList(n) == [i \in 1..n |-> "skill"]

MatchResults ==
    {[matched |-> SkillList(m), partial |-> SkillList(p), missing |-> SkillList(x)] :
        m \in 0..MaxCount, p \in 0..MaxCount, x \in 0..MaxCount}

Matched(job, match_result) ==
    [InitialState EXCEPT !.job_hash = Some(compute_simhash(job)),
                         !.extracted_skills = Some(ExtractedSkills),
                         !.match_result = Some(match_result)]

InitHeuristic ==
    /\ min_score = 0
    /\ batch_size = 1
    /\ heuristic_threshold \in {Some(0), Some(DEFAULT_HEURISTIC_THRESHOLD), Some(625)}
    /\ jobs \in {<<TaggedJob(job, min_score, heuristic_threshold)>> :
                    job \in {p \in Postings : ~DescriptionTooShort(p)}}
    /\ api_key \in ApiKeyConfigs
    /\ files \in FileConfigs
    /\ seen_hashes = {compute_simhash(jobs[1])}
    /\ all_results = <<>>
    /\ chunk_results = <<None>>
    /\ indexed_states = <<1>>
    /\ pc = "gather"
    /\ wf \in {<<[node |-> "skills_matching", state |-> Matched(jobs[1], match_result),
                  exc |-> None]>> : match_result \in MatchResults}
    /\ db = {}
    /\ events = << <<"simhash_deduplication", "db:select", "skills_extraction",
                     "llm:skills_extraction", "skills_matching", "llm:skills_matching">> >>
    /\ done_order = <<>>

HeuristicScore(g) ==
    /\ At(g, "skills_matching")
    /\ wf[g].state.match_result # None
    /\ Advance(g, "heuristic_filter",
               [wf[g].state EXCEPT !.heuristic_score =
                    Some(calculate_heuristic_score(Val(wf[g].state.match_result)))],
               None, <<>>, db)

NextHeuristic ==
    \E g \in 1..Len(jobs) :
        \/ HeuristicScore(g)
        \/ Gate(g)

SpecHeuristic == InitHeuristic /\ [][NextHeuristic]_vars

(***************************************************************************)
(* The relevance reply in full: the text may hold "SCORE: n" for any       *)
(* number n of digits and "REASONING: ...", each or neither; the two       *)
(* patterns are searched independently.                                    *)
(***************************************************************************)
ScoreContents ==
    {[raises |-> TRUE, score |-> None, reasoning |-> None],
     [raises |-> FALSE, score |-> None, reasoning |-> None],
     [raises |-> FALSE, score |-> None, reasoning |-> Some("no number given")],
     [raises |-> FALSE, score |-> Some(7), reasoning |-> None],
     [raises |-> FALSE, score |-> Some(0), reasoning |-> Some("zero")],
     [raises |-> FALSE, score |-> Some(1), reasoning |-> Some("one")],
     [raises |-> FALSE, score |-> Some(10), reasoning |-> Some("ten")],
     [raises |-> FALSE, score |-> Some(11), reasoning |-> Some("eleven")],
     [raises |-> FALSE, score |-> Some(250), reasoning |-> Some("two hundred and fifty")]}

InitParse ==
    /\ jobs \in UNION {[1..n -> Postings] : n \in 0..MaxJobs}
    /\ min_score \in {0, 1}
    /\ batch_size = MaxJobs
    /\ heuristic_threshold = Some(0)
    /\ api_key \in ApiKeyConfigs
    /\ files \in FileConfigs
    /\ seen_hashes = {}
    /\ all_results = <<>>
    /\ chunk_results = <<>>
    /\ indexed_states = <<>>
    /\ pc = "start"
    /\ wf = [g \in 1..Len(jobs) |-> [node |-> NOT_DISPATCHED, state |-> InitialState, exc |-> None]]
    /\ db = {}
    /\ events = [g \in 1..Len(jobs) |-> <<>>]
    /\ done_order = <<>>

ScoreContent(g) ==
    /\ At(g, "job_scoring")
    /\ \E reply \in ScoreContents :
          LET client == api_key["job_scoring"]
              resume_exists == RESUME_FILE \in files
          IN  Advance(g, "save_job",
                      job_scoring(wf[g].state, client, resume_exists, reply), None,
                      <<"job_scoring">>
                          \o ScoringCalls(wf[g].state, client, resume_exists)
                          \o ScoringFailure(wf[g].state, client, resume_exists, reply),
                      db)

NextParse ==
    \/ Start
    \/ PrepareChunk
    \/ \E g \in 1..Len(jobs) :
          \/ Dedup(g)
          \/ Extract(g)
          \/ Match(g)
          \/ Gate(g)
          \/ ScoreContent(g)
          \/ Save(g)
    \/ CollectChunk

SpecParse == InitParse /\ [][NextParse]_vars

(***************************************************************************)
(* The cross-run check against stores of earlier runs: records at the      *)
(* sixtieth and the sixty-first day before today, a recent record, and a   *)
(* recent record that was never fingerprinted.                             *)
(***************************************************************************)
EarlierRows ==
    {StoredRow(4, 3, "A", Today - WINDOW_DAYS),
     StoredRow(5, 4, "B", Today - WINDOW_DAYS - 1),
     StoredRow(6, 5, "C", Today - 1),
     [StoredRow(7, 6, "C", Today - 1) EXCEPT !.job_hash = None]}

InitDedup ==
    /\ jobs \in UNION {[1..n -> Postings] : n \in 0..MaxJobs}
    /\ min_score = 0
    /\ batch_size = MaxJobs
    /\ heuristic_threshold = Some(0)
    /\ api_key \in ApiKeyConfigs
    /\ files \in FileConfigs
    /\ seen_hashes = {}
    /\ all_results = <<>>
    /\ chunk_results = <<>>
    /\ indexed_states = <<>>
    /\ pc = "start"
    /\ wf = [g \in 1..Len(jobs) |-> [node |-> NOT_DISPATCHED, state |-> InitialState, exc |-> None]]
    /\ db \in SUBSET EarlierRows
    /\ events = [g \in 1..Len(jobs) |-> <<>>]
    /\ done_order = <<>>

SpecDedup == InitDedup /\ [][NextHash]_vars

(***************************************************************************)
(* Two calls of process_batch on one LangGraphPipeline instance: when the  *)
(* first call has returned or raised, the same job dicts are submitted     *)
(* again.  self.seen_hashes and the store are what the first call left;    *)
(* the tasks, the results and the record of events start afresh, the       *)
(* events after a mark of the second call.                                 *)
(***************************************************************************)
SECOND_CALL == "call:2"

InitCalls ==
    /\ jobs \in UNION {[1..n -> Postings] : n \in 0..MaxJobs}
    /\ min_score = 0
    /\ batch_size \in 1..MaxJobs
    /\ heuristic_threshold = Some(0)
    /\ api_key \in ApiKeyConfigs
    /\ files \in FileConfigs
    /\ seen_hashes = {}
    /\ all_results = <<>>
    /\ chunk_results = <<>>
    /\ indexed_states = <<>>
    /\ pc = "start"
    /\ wf = [g \in 1..Len(jobs) |-> [node |-> NOT_DISPATCHED, state |-> InitialState, exc |-> None]]
    /\ db = {}
    /\ events = [g \in 1..Len(jobs) |-> <<>>]
    /\ done_order = <<>>

CallAgain ==
    /\ pc \in {"returned", "raised"}
    /\ Len(jobs) > 0
    /\ \A g \in 1..Len(jobs) : SECOND_CALL \notin {events[g][i] : i \in 1..Len(events[g])}
    /\ pc' = "start"
    /\ all_results' = <<>>
    /\ chunk_results' = <<>>
    /\ indexed_states' = <<>>
    /\ wf' = [g \in 1..Len(jobs) |-> [node |-> NOT_DISPATCHED, state |-> InitialState, exc |-> None]]
    /\ events' = [g \in 1..Len(jobs) |-> <<SECOND_CALL>>]
    /\ done_order' = <<>>
    /\ UNCHANGED <<jobs, inputs, seen_hashes, db>>

NextCalls ==
    \/ Start
    \/ PrepareChunk
    \/ \E g \in 1..Len(jobs) :
          \/ Dedup(g)
          \/ Extract(g)
          \/ Match(g)
          \/ Gate(g)
          \/ Score(g)
          \/ Save(g)
    \/ CollectChunk
    \/ CallAgain

SpecCalls == InitCalls /\ [][NextCalls]_vars

(***************************************************************************)
(* process_single_job_async: the job dict is tagged, one workflow is       *)
(* invoked on a fresh pipeline instance, and the status is computed from   *)
(* the final state; any exception (of the workflow, or of comparing a      *)
(* score that is None) gives the result of the except branch.              *)
(***************************************************************************)
SingleStatusStrict(final_state, min_sc) ==
    IF ~final_state.is_duplicate /\ final_state.should_continue
    THEN IF final_state.llm_score = None THEN "error"
         ELSE IF Val(final_state.llm_score) > min_sc THEN "accepted" ELSE "low_score"
    ELSE IF final_state.is_duplicate THEN "duplicate"
    ELSE IF Truthy(final_state.error) THEN "error"
    ELSE "rejected"

SingleStatus(final_state, min_sc) ==
    IF ~final_state.is_duplicate /\ final_state.should_continue
    THEN IF final_state.llm_score = None THEN "error"
         ELSE IF Val(final_state.llm_score) >= min_sc THEN "accepted" ELSE "low_score"
    ELSE IF final_state.is_duplicate THEN "duplicate"
    ELSE IF Truthy(final_state.error) THEN "error"
    ELSE "rejected"

SingleResult(task, min_sc) ==
    IF task.node = RAISED
    THEN [status |-> "error", error |-> task.exc]
    ELSE [status |-> SingleStatus(task.state, min_sc), error |-> task.state.error]

InitSingle ==
    /\ min_score \in MinScores
    /\ batch_size = 1
    /\ heuristic_threshold \in Thresholds
    /\ jobs \in {<<TaggedJob(job, min_score, heuristic_threshold)>> : job \in Postings}
    /\ api_key \in ApiKeyConfigs
    /\ files \in FileConfigs
    /\ seen_hashes = {}
    /\ all_results = <<>>
    /\ chunk_results = <<>>
    /\ indexed_states = <<>>
    /\ pc = "gather"
    /\ wf = <<[node |-> "simhash_deduplication", state |-> InitialState, exc |-> None]>>
    /\ db \in InitialStores
    /\ events = << <<>> >>
    /\ done_order = <<>>

SingleReturn ==
    /\ pc = "gather"
    /\ wf[1].node \in {END, RAISED}
    /\ all_results' = <<SingleResult(wf[1], min_score)>>
    /\ pc' = "returned"
    /\ UNCHANGED <<jobs, inputs, seen_hashes, chunk_results, indexed_states, wf, db, events,
                   done_order>>

NextSingle ==
    \/ \E g \in 1..Len(jobs) :
          \/ Dedup(g)
          \/ Extract(g)
          \/ Match(g)
          \/ Gate(g)
          \/ Score(g)
          \/ Save(g)
    \/ SingleReturn

SpecSingle == InitSingle /\ [][NextSingle]_vars

(***************************************************************************)
(* process_batch when every model call and every store call returns or     *)
(* raises: no task is ever left waiting for a call, and the event loop     *)
(* runs whatever is ready.                                                 *)
(***************************************************************************)
InitReturning ==
    /\ jobs \in UNION {[1..n -> Postings] : n \in 0..MaxJobs}
    /\ min_score = 0
    /\ batch_size \in 1..MaxJobs
    /\ heuristic_threshold \in {Some(0), None}
    /\ api_key \in ApiKeyConfigs
    /\ files \in FileConfigs
    /\ seen_hashes = {}
    /\ all_results = <<>>
    /\ chunk_results = <<>>
    /\ indexed_states = <<>>
    /\ pc = "start"
    /\ wf = [g \in 1..Len(jobs) |-> [node |-> NOT_DISPATCHED, state |-> InitialState, exc |-> None]]
    /\ db = {}
    /\ events = [g \in 1..Len(jobs) |-> <<>>]
    /\ done_order = <<>>

NextReturning ==
    \/ Start
    \/ PrepareChunk
    \/ \E g \in 1..Len(jobs) :
          \/ Dedup(g)
          \/ Extract(g)
          \/ Match(g)
          \/ Gate(g)
          \/ Score(g)
          \/ Save(g)
    \/ CollectChunk

SpecReturning == InitReturning /\ [][NextReturning]_vars /\ Fairness

(***************************************************************************)
(* insert_job on its own: a store of earlier rows, with their archived     *)
(* flag, and one call whose dict holds job_url and any of the other keys.  *)
(* A dict for a job_url that is not stored holds the columns the save      *)
(* stage writes.                                                           *)
(***************************************************************************)
ArchivedRows ==
    {[archived |-> TRUE] @@ StoredRow(4, 1, "A", Today - WINDOW_DAYS - 1),
     [archived |-> FALSE] @@ StoredRow(5, 2, "C", Today - 1)}

OptionalKeys == {"text", "llm_score", "job_hash", "date_scraped", "archived"}

SavedKeys == {"text", "llm_score", "job_hash"}

AllKeys(url) ==
    [job_url |-> url, text |-> "B", job_hash |-> Some(Str(SimhashValue("B"))),
     extracted_skills |-> Some(<<"python">>), matched_skills |-> <<"python">>,
     heuristic_score |-> Some(1000), llm_score |-> 9, llm_reasoning |-> "strong fit",
     date_scraped |-> Today, archived |-> FALSE]

JobDicts ==
    {[k \in (DOMAIN AllKeys(url) \ OptionalKeys) \cup keys |-> AllKeys(url)[k]] :
        url \in 1..3, keys \in SUBSET OptionalKeys}

InitInsert ==
    /\ db \in SUBSET ArchivedRows
    /\ jobs \in {<<job_data>> : job_data \in
                    {d \in JobDicts : \/ \E r \in db : r.job_url = d.job_url
                                      \/ DOMAIN d \cap OptionalKeys = SavedKeys}}
    /\ min_score = 0
    /\ batch_size = 1
    /\ heuristic_threshold = Some(0)
    /\ api_key \in ApiKeyConfigs
    /\ files \in FileConfigs
    /\ seen_hashes = {}
    /\ all_results = <<>>
    /\ chunk_results = <<>>
    /\ indexed_states = <<>>
    /\ pc = "insert_job"
    /\ wf = <<[node |-> "save_job", state |-> InitialState, exc |-> None]>>
    /\ events = << <<>> >>
    /\ done_order = <<>>

InsertJob ==
    /\ pc = "insert_job"
    /\ db' = insert_job(db, jobs[1])
    /\ events' = << <<"db:insert">> >>
    /\ pc' = "inserted"
    /\ UNCHANGED <<jobs, inputs, seen_hashes, all_results, chunk_results, indexed_states,
                   wf, done_order>>

SpecInsert == InitInsert /\ [][InsertJob]_vars

(***************************************************************************)
(* Vocabulary of the properties.                                           *)
(***************************************************************************)
Posting == 1..Len(jobs)

Collected(g) == g <= Len(all_results)

Dispatched(g) == wf[g].node # NOT_DISPATCHED

Has(g, e) == \E i \in 1..Len(events[g]) : events[g][i] = e

ModelCalls(g) == {i \in 1..Len(events[g]) :
                     events[g][i] \in {"llm:skills_extraction", "llm:skills_matching",
                                       "llm:job_scoring"}}

SameChunk(g1, g2) == (g1 - 1) \div batch_size = (g2 - 1) \div batch_size

EndedBefore(g1, g2) ==
    \E i, j \in 1..Len(done_order) : i < j /\ done_order[i] = g1 /\ done_order[j] = g2

Statuses == {"accepted", "low_score", "rejected", "duplicate", "error"}

(***************************************************************************)
(* The result a posting is owed: the in-batch duplicate result when it was *)
(* not dispatched, the error result when its task raised, and otherwise    *)
(* the formatting of its own final pipeline state.                         *)
(***************************************************************************)
OwnResult(g) ==
    IF ~Dispatched(g) THEN BatchDuplicateResult
    ELSE IF wf[g].node = RAISED THEN ExceptionResult(Val(wf[g].exc))
    ELSE format_result(wf[g].state, min_score, heuristic_threshold)

(***************************************************************************)
(* C1.  For a list of N >= 1 postings process_batch returns (it does not   *)
(* raise), the list it returns has exactly N results, and the i-th result  *)
(* is the one of the i-th posting, whatever the order in which the tasks   *)
(* ended, whichever tasks raised and whichever postings were in-batch      *)
(* duplicates.                                                             *)
(***************************************************************************)
C1_OrderedResults ==
    /\ Len(jobs) >= 1 => pc # "raised"
    /\ pc = "returned" =>
          /\ Len(all_results) = Len(jobs)
          /\ \A g \in Posting : all_results[g] = OwnResult(g)

C1_Witness ==
    /\ pc = "returned"
    /\ Len(jobs) = MaxJobs
    /\ \E g1, g2 \in Posting :
          /\ g1 < g2
          /\ SameChunk(g1, g2)
          /\ EndedBefore(g2, g1)
          /\ wf[g2].node = RAISED
          /\ all_results[g1].status = "duplicate"
          /\ all_results[g2].status = "error"

(***************************************************************************)
(* C2.  Bulkhead: when the task of a posting raised, process_batch does    *)
(* not raise, that posting's result is the error result carrying the       *)
(* exception text with zero scores and counts, and every other posting of  *)
(* its chunk whose task ended normally has the result formatted from its   *)
(* own final pipeline state.                                               *)
(***************************************************************************)
C2_Bulkhead ==
    /\ (\E g \in Posting : wf[g].node = RAISED) => pc # "raised"
    /\ \A g \in Posting :
          (Collected(g) /\ wf[g].node = RAISED) =>
             /\ all_results[g] = [status |-> "error",
                                  reason |-> <<Val(wf[g].exc), <<>>>>,
                                  heuristic_score |-> 0, llm_score |-> 0,
                                  skills_extracted |-> 0, skills_matched |-> 0]
             /\ \A h \in Posting :
                   (h # g /\ SameChunk(g, h) /\ wf[h].node = END) =>
                      all_results[h] =
                          format_result(wf[h].state, min_score, heuristic_threshold)

C2_Witness ==
    /\ pc = "returned"
    /\ \E g, h \in Posting :
          /\ g # h
          /\ SameChunk(g, h)
          /\ wf[g].node = RAISED
          /\ all_results[g].status = "error"
          /\ wf[h].node = END
          /\ wf[h].state.error # None
          /\ all_results[h].reason # all_results[g].reason

(***************************************************************************)
(* C3.  Every returned result has one of the five statuses, and a posting  *)
(* whose pipeline state carries an error is reported "error", whatever its *)
(* scores are.                                                             *)
(***************************************************************************)
C3_ErrorStatus ==
    \A g \in Posting :
        Collected(g) =>
           /\ all_results[g].status \in Statuses
           /\ wf[g].state.error # None => all_results[g].status = "error"

C3_Witness ==
    \E g \in Posting :
        /\ Collected(g)
        /\ wf[g].state.error # None
        /\ wf[g].state.heuristic_score # None
        /\ Val(wf[g].state.heuristic_score) > 0
        /\ all_results[g].status = "error"

(***************************************************************************)
(* C4.  The gate passes a posting exactly when its heuristic score is at   *)
(* least the threshold: a posting the gate decided went on to relevance    *)
(* scoring if and only if score >= threshold, and with score = threshold   *)
(* it is not reported "rejected".                                          *)
(***************************************************************************)
PassedGate(g) == wf[g].node = "job_scoring" \/ Has(g, "job_scoring")

GateDecided(g) ==
    /\ Has(g, "heuristic_filter")
    /\ wf[g].node # RAISED
    /\ wf[g].state.error = None \/ Has(g, "job_scoring")

C4_GateAtThreshold ==
    \A g \in Posting :
        GateDecided(g) =>
           /\ PassedGate(g) <=>
                 Val(wf[g].state.heuristic_score) >= Val(heuristic_threshold)
           /\ (Collected(g)
               /\ Val(wf[g].state.heuristic_score) = Val(heuristic_threshold))
                 => all_results[g].status # "rejected"

C4_Witness ==
    \E g \in Posting :
        /\ Collected(g)
        /\ GateDecided(g)
        /\ wf[g].state.heuristic_score = Some(0)
        /\ heuristic_threshold = Some(0)
        /\ Has(g, "llm:job_scoring")
        /\ all_results[g].status = "accepted"

(***************************************************************************)
(* C5.  A posting whose heuristic score is below the threshold (no         *)
(* duplicate, no error) stops at the gate: no node runs after the gate,    *)
(* the relevance model is never called, nothing is written to the store,   *)
(* and its status is "rejected".                                           *)
(***************************************************************************)
BelowThreshold(g) ==
    /\ ~wf[g].state.is_duplicate
    /\ wf[g].state.error = None
    /\ wf[g].state.heuristic_score # None
    /\ heuristic_threshold # None
    /\ Val(wf[g].state.heuristic_score) < Val(heuristic_threshold)

C5_RejectedStopsAtGate ==
    \A g \in Posting :
        BelowThreshold(g) =>
           /\ wf[g].node \in {"heuristic_filter", END}
           /\ ~Has(g, "job_scoring")
           /\ ~Has(g, "llm:job_scoring")
           /\ ~Has(g, "save_job")
           /\ ~Has(g, "db:insert")
           /\ Collected(g) => all_results[g].status = "rejected"

C5_Witness ==
    \E g \in Posting :
        /\ Collected(g)
        /\ BelowThreshold(g)
        /\ Has(g, "llm:skills_matching")
        /\ all_results[g].status = "rejected"
        /\ pc = "returned"

(***************************************************************************)
(* The number of bits in which the fingerprints of two texts differ.       *)
(***************************************************************************)
BitsApart(t1, t2) ==
    CASE t1 = t2 -> 0
      [] {t1, t2} = {"A", "B"} -> 6
      [] {t1, t2} = {"A", "C"} -> 7
      [] {t1, t2} = {"B", "C"} -> 1

NearRecord(g, rows) ==
    \E r \in rows :
        /\ r.job_hash # None
        /\ r.date_scraped >= Today - 60
        /\ BitsApart(jobs[g].text, r.text) <= 6

(***************************************************************************)
(* C6.  If the store answers the query of a posting's DEDUP stage while it *)
(* holds a fingerprinted record of the last 60 days at most 6 bits away    *)
(* (a record of an earlier run or one an earlier chunk of this call        *)
(* saved), the posting is flagged duplicate and its workflow ends there;   *)
(* a flagged posting never enters skill extraction, causes no model call   *)
(* and no save, and is reported "duplicate".                               *)
(***************************************************************************)
DuplicateEndsPipeline ==
    \A g \in Posting :
        wf[g].state.is_duplicate =>
           /\ wf[g].node = END
           /\ ModelCalls(g) = {}
           /\ ~Has(g, "skills_extraction")
           /\ ~Has(g, "db:insert")
           /\ Collected(g) => all_results[g].status = "duplicate"

DedupFlagsNearRecord ==
    \A g \in Posting :
        (/\ wf[g].node = "simhash_deduplication"
         /\ wf'[g].node # "simhash_deduplication"
         /\ NearRecord(g, db)
         /\ \E i \in 1..Len(events'[g]) : events'[g][i] = "db:select")
           => wf'[g].state.is_duplicate /\ wf'[g].node = END

C6_DuplicateInStore == []DuplicateEndsPipeline /\ [][DedupFlagsNearRecord]_vars

C6_Witness ==
    /\ pc = "returned"
    /\ \A r \in db : r.date_scraped = Today
    /\ \E g \in Posting :
          /\ wf[g].state.is_duplicate
          /\ all_results[g].status = "duplicate"
          /\ \E r \in db : BitsApart(jobs[g].text, r.text) = 6

(***************************************************************************)
(* C7.  Of the postings of one call that carry the same fingerprint only   *)
(* the first is handed to the workflow; each later one, in the same chunk  *)
(* or in a later one, gets the result "duplicate" / "Duplicate in current  *)
(* batch" with zero scores and counts, and no node, store query or model   *)
(* call ever happens for it, whatever the store holds.                     *)
(***************************************************************************)
FirstWithFingerprint(g) ==
    \A h \in 1..(g - 1) : compute_simhash(jobs[h]) # compute_simhash(jobs[g])

Scanned(g) == Collected(g) \/ (pc = "gather" /\ g <= ChunkStart + ChunkLen)

C7_InBatchDuplicate ==
    \A g \in Posting :
        Scanned(g) =>
           IF FirstWithFingerprint(g) THEN Dispatched(g)
           ELSE /\ ~Dispatched(g)
                /\ events[g] = <<>>
                /\ Collected(g) =>
                      all_results[g] = [status |-> "duplicate",
                                        reason |-> <<"Duplicate in current batch", <<>>>>,
                                        heuristic_score |-> 0, llm_score |-> 0,
                                        skills_extracted |-> 0, skills_matched |-> 0]

C7_Witness ==
    /\ pc = "returned"
    /\ db = {}
    /\ \E g, h \in Posting :
          /\ h < g
          /\ ~SameChunk(g, h)
          /\ compute_simhash(jobs[h]) = compute_simhash(jobs[g])
          /\ all_results[g].status = "duplicate"
          /\ all_results[h].status = "rejected"

(***************************************************************************)
(* C8.  A posting that got relevance score s without error is reported     *)
(* "accepted" when s >= min_score and "low_score" when s < min_score, and  *)
(* the heuristic and relevance scores reported are those of its pipeline   *)
(* state, whatever min_score is.                                           *)
(***************************************************************************)
Scored(g) ==
    /\ wf[g].node = END
    /\ ~wf[g].state.is_duplicate
    /\ wf[g].state.error = None
    /\ wf[g].state.llm_score # None

C8_MinScoreClassification ==
    \A g \in Posting :
        (Collected(g) /\ Scored(g)) =>
           LET s == Val(wf[g].state.llm_score)
               h == Val(wf[g].state.heuristic_score)
           IN  /\ all_results[g].status = IF s >= min_score THEN "accepted" ELSE "low_score"
               /\ all_results[g].llm_score = s
               /\ all_results[g].heuristic_score = h
               /\ \A m \in MinScores :
                     LET r == format_result(wf[g].state, m, heuristic_threshold)
                     IN  /\ r.status = IF s >= m THEN "accepted" ELSE "low_score"
                         /\ r.llm_score = s
                         /\ r.heuristic_score = h

C8_Witness ==
    \E g \in Posting :
        /\ Collected(g)
        /\ Scored(g)
        /\ wf[g].state.llm_score = Some(9)
        /\ min_score = 10
        /\ all_results[g].status = "low_score"
        /\ all_results[g].llm_score = 9
        /\ format_result(wf[g].state, 5, heuristic_threshold).status = "accepted"

(***************************************************************************)
(* C9.  Only a posting reported "accepted" is written to the store: when   *)
(* insert_job ran for a posting, the minimum the save stage read from the  *)
(* job dict is the call's min_score and the posting's status is            *)
(* "accepted".                                                             *)
(***************************************************************************)
C9_OnlyAcceptedSaved ==
    \A g \in Posting :
        Has(g, "db:insert") =>
           /\ SaveMinScore(jobs[g]) = min_score
           /\ FormatStatus(wf[g].state, min_score, heuristic_threshold) = "accepted"
           /\ Collected(g) => all_results[g].status = "accepted"

C9_Witness ==
    /\ pc = "returned"
    /\ \E g, h \in Posting :
          /\ Has(g, "db:insert")
          /\ all_results[g].status = "accepted"
          /\ all_results[h].status = "low_score"
          /\ ~Has(h, "db:insert")

(***************************************************************************)
(* C10.  Every posting reported "accepted" has a row with its job_url in   *)
(* the store when process_batch returns.                                   *)
(***************************************************************************)
C10_AcceptedIsStored ==
    \A g \in Posting :
        (pc = "returned" /\ all_results[g].status = "accepted") =>
           /\ "job_url" \in DOMAIN jobs[g]
           /\ \E r \in db : r.job_url = jobs[g].job_url

(***************************************************************************)
(* C11.  When the structured call of skill extraction raised and the       *)
(* content of the JSON fallback did not validate, the posting has an empty *)
(* skill list and no error up to the relevance stage; matching then makes  *)
(* no model call and leaves an empty match result and heuristic score 0;   *)
(* and the batch does not raise.                                           *)
(***************************************************************************)
C11_MalformedExtraction ==
    \A g \in Posting :
        Has(g, "malformed:skills_extraction") =>
           /\ wf[g].state.extracted_skills = Some(<<>>)
           /\ wf[g].state.error = None \/ Has(g, "job_scoring")
           /\ ~Has(g, "llm:skills_matching")
           /\ Has(g, "skills_matching") =>
                  /\ wf[g].state.match_result = Some(EmptyMatch)
                  /\ wf[g].state.heuristic_score = Some(0)
           /\ pc # "raised"
           /\ Collected(g) => all_results[g] = OwnResult(g)

C11_Witness ==
    /\ pc = "returned"
    /\ \E g \in Posting :
          /\ Has(g, "malformed:skills_extraction")
          /\ Has(g, "skills_matching")
          /\ wf[g].state.heuristic_score = Some(0)
          /\ all_results[g].status = "rejected"
          /\ all_results[g].skills_extracted = 0

(***************************************************************************)
(* C12.  With no credential for the job_scoring stage, every posting that  *)
(* passed the gate ends with an error and status "error" without any       *)
(* relevance model call and without a save, while a posting the gate       *)
(* rejected in the same batch is reported "rejected".                      *)
(***************************************************************************)
C12_NoScoringCredential ==
    ~api_key["job_scoring"] =>
        \A g \in Posting :
            /\ ~Has(g, "llm:job_scoring")
            /\ ~Has(g, "db:insert")
            /\ Has(g, "job_scoring") =>
                   /\ wf[g].state.error = Some("LLM client not configured")
                   /\ Collected(g) => all_results[g].status = "error"
            /\ (BelowThreshold(g) /\ Collected(g)) => all_results[g].status = "rejected"

C12_Witness ==
    /\ pc = "returned"
    /\ ~api_key["job_scoring"]
    /\ \E g, h \in Posting :
          /\ Has(g, "job_scoring")
          /\ Has(g, "save_job")
          /\ all_results[g].status = "error"
          /\ Has(h, "llm:skills_matching")
          /\ all_results[h].status = "rejected"

(***************************************************************************)
(* A posting ended in error: its pipeline state carries an error and, once *)
(* collected, its status is "error".                                       *)
(***************************************************************************)
EndsInError(g) ==
    /\ wf[g].state.error # None
    /\ Collected(g) => all_results[g].status = "error"

(***************************************************************************)
(* C13, as stated.  For each of the three model stages: when the stage has *)
(* no credential, every posting for which the stage ran ends with a        *)
(* pipeline error and status "error".                                      *)
(***************************************************************************)
C13_EveryPostingReachingStage ==
    \A stage \in Stages :
        ~api_key[stage] =>
            \A g \in Posting : (Has(g, stage) /\ Collected(g)) => EndsInError(g)

(***************************************************************************)
(* C13, amended.  When a stage has no credential, every posting for which  *)
(* the stage needs its model ends with a pipeline error and status "error" *)
(* and no call of that stage's model is made: skill extraction needs it    *)
(* when the description has at least 100 characters, skill matching when   *)
(* the extracted skill list is not empty, relevance scoring always.        *)
(***************************************************************************)
C13_MissingCredentialWhenCalled ==
    \A g \in Posting :
        /\ (/\ ~api_key["skills_extraction"]
            /\ Has(g, "skills_extraction")
            /\ ~DescriptionTooShort(jobs[g]))
              => EndsInError(g) /\ ~Has(g, "llm:skills_extraction")
        /\ (/\ ~api_key["skills_matching"]
            /\ Has(g, "skills_matching")
            /\ ~NoSkills(wf[g].state))
              => EndsInError(g) /\ ~Has(g, "llm:skills_matching")
        /\ (/\ ~api_key["job_scoring"]
            /\ Has(g, "job_scoring"))
              => EndsInError(g) /\ ~Has(g, "llm:job_scoring")

C13_Witness ==
    /\ pc = "returned"
    /\ api_key = [st \in Stages |-> st = "skills_extraction"]
    /\ \E g, h \in Posting :
          /\ ~NoSkills(wf[g].state)
          /\ Has(g, "skills_matching")
          /\ wf[g].state.error = Some("LLM client not configured")
          /\ all_results[g].status = "error"
          /\ DescriptionTooShort(jobs[h])
          /\ Has(h, "skills_matching")
          /\ all_results[h].status = "rejected"

(***************************************************************************)
(* The rows of a store that carry a job_url.                               *)
(***************************************************************************)
RowsOf(rows, url) == {r \in rows : r.job_url = url}

OneRowPerUrl ==
    /\ \A r1, r2 \in db : r1.job_url = r2.job_url => r1 = r2
    /\ \A g \in Posting :
          Has(g, "db:insert") => Cardinality(RowsOf(db, jobs[g].job_url)) = 1

(***************************************************************************)
(* A step in which the save stage of posting g called insert_job.          *)
(***************************************************************************)
InsertStep(g) ==
    /\ wf[g].node = "save_job"
    /\ \E i \in 1..Len(events'[g]) : events'[g][i] = "db:insert"

InsertIsUpsert ==
    \A g \in Posting :
        InsertStep(g) =>
           LET record == job_record(wf[g].state, jobs[g])
               url == record.job_url
               id == insert_job_id(db, record)
           IN  /\ db' = insert_job(db, record)
               /\ \A r \in db : r.job_url # url => r \in db'
               /\ \E r \in db' : r.job_url = url /\ r.id = id
               /\ IF RowsOf(db, url) # {}
                  THEN /\ Cardinality(db') = Cardinality(db)
                       /\ RowIds(db') = RowIds(db)
                       /\ \E r \in db : r.job_url = url /\ r.id = id
                  ELSE /\ Cardinality(db') = Cardinality(db) + 1
                       /\ id \notin RowIds(db)
               /\ insert_job(db', record) = db'
               /\ insert_job_id(db', record) = id

(***************************************************************************)
(* C14.  The store holds exactly one row per job_url that was inserted,    *)
(* whatever the interleaving of the save stages of a chunk: an insert of a *)
(* job_url the store already holds updates that row in place and returns   *)
(* its id, an insert of a new job_url adds one row with a fresh id, and    *)
(* repeating an insert changes nothing.                                    *)
(***************************************************************************)
C14_UpsertByUrl == []OneRowPerUrl /\ [][InsertIsUpsert]_vars

C14_Witness ==
    /\ pc = "returned"
    /\ Cardinality(db) = 1
    /\ \E g, h \in Posting :
          /\ g # h
          /\ SameChunk(g, h)
          /\ Has(g, "db:insert")
          /\ Has(h, "db:insert")
          /\ jobs[g].job_url = jobs[h].job_url
          /\ jobs[g].text # jobs[h].text
          /\ EndedBefore(h, g)
          /\ \E r \in db : r.text = jobs[g].text

ErrorClearsFlag ==
    \A g \in Posting : wf[g].state.error # None => ~wf[g].state.should_continue

FlagStaysCleared ==
    \A g \in Posting :
        (Dispatched(g) /\ ~wf[g].state.should_continue) =>
           /\ ~wf'[g].state.should_continue
           /\ wf'[g].state.error = wf[g].state.error

(***************************************************************************)
(* C15.  In every reachable pipeline state an error implies a cleared      *)
(* continuation flag, and a stage that runs with the flag cleared leaves   *)
(* the flag cleared and the error as it is.  (The converse fails: the      *)
(* witness has a cleared flag without an error.)                           *)
(***************************************************************************)
C15_ErrorImpliesStop == []ErrorClearsFlag /\ [][FlagStaysCleared]_vars

C15_Witness ==
    /\ pc = "returned"
    /\ \E g, h \in Posting :
          /\ wf[g].state.error # None
          /\ ~wf[g].state.should_continue
          /\ Has(g, "heuristic_filter")
          /\ wf[h].state.error = None
          /\ ~wf[h].state.should_continue
          /\ Has(h, "heuristic_filter")
          /\ all_results[h].status = "rejected"

(***************************************************************************)
(* The six stages in workflow order, and the stages a posting has run.     *)
(***************************************************************************)
StageOrder == <<"simhash_deduplication", "skills_extraction", "skills_matching",
                "heuristic_filter", "job_scoring", "save_job">>

StageNames == {StageOrder[i] : i \in 1..Len(StageOrder)}

IsStage(e) == e \in StageNames

StagesRun(g) == SelectSeq(events[g], IsStage)

StagesRunAfter(g) == SelectSeq(events'[g], IsStage)

InitialSegment ==
    \A g \in Posting :
        /\ Len(StagesRun(g)) <= Len(StageOrder)
        /\ StagesRun(g) = SubSeq(StageOrder, 1, Len(StagesRun(g)))
        /\ wf[g].node \in StageNames =>
               wf[g].node = StageOrder[Len(StagesRun(g)) + 1]
        /\ wf[g].node = END =>
               \/ Len(StagesRun(g)) = 1 /\ wf[g].state.is_duplicate
               \/ /\ Len(StagesRun(g)) = 4
                  /\ ~wf[g].state.is_duplicate
                  /\ ~wf[g].state.should_continue
               \/ Len(StagesRun(g)) = 6 /\ ~wf[g].state.is_duplicate

(***************************************************************************)
(* One step of a task runs the stage it is at, once, and leads to the next *)
(* stage; it leads to END only from the dedup stage with the duplicate     *)
(* flag set, from the gate with the continuation flag cleared, and from    *)
(* the save stage.  A stage that raises ends the task in that stage, a     *)
(* model stage whose call never returns keeps the task in that stage.  An  *)
(* ended or blocked task takes no further step.                            *)
(***************************************************************************)
FixedSequence ==
    \A g \in Posting :
        /\ wf[g].node \in {END, RAISED, BLOCKED} =>
               wf'[g] = wf[g] /\ events'[g] = events[g]
        /\ (wf[g].node \in StageNames /\ wf'[g].node # wf[g].node) =>
               LET k == Len(StagesRun(g)) + 1
                   after == wf'[g].state
                   to == wf'[g].node
               IN  /\ StagesRunAfter(g) = Append(StagesRun(g), wf[g].node)
                   /\ IF to = RAISED THEN wf'[g].exc # None
                      ELSE IF to = BLOCKED THEN k \in {2, 3, 5} /\ after = wf[g].state
                      ELSE IF k = 1
                      THEN to = (IF after.is_duplicate THEN END ELSE StageOrder[2])
                      ELSE IF k = 4
                      THEN to = (IF after.should_continue THEN StageOrder[5] ELSE END)
                      ELSE IF k = 6 THEN to = END
                      ELSE to = StageOrder[k + 1]
        /\ (wf[g].node \in StageNames /\ wf'[g].node = wf[g].node) =>
               events'[g] = events[g]

(***************************************************************************)
(* C16.  The stages a posting runs are an initial segment of DEDUP,        *)
(* EXTRACT, MATCH, GATE, SCORE, SAVE in this order, each run once; a       *)
(* workflow ends early only after DEDUP with a duplicate and after GATE    *)
(* with the continuation flag cleared; no stage is entered again.          *)
(***************************************************************************)
C16_FixedStageSequence == []InitialSegment /\ [][FixedSequence]_vars

C16_Witness ==
    /\ pc = "returned"
    /\ \E g, h \in Posting :
          /\ StagesRun(g) = SubSeq(StageOrder, 1, 1)
          /\ wf[g].state.is_duplicate
          /\ StagesRun(h) = StageOrder
          /\ wf[h].state.error # None

ChunkOf(g) == (g - 1) \div batch_size

Running(g) == Dispatched(g) /\ wf[g].node \notin {END, RAISED}

(***************************************************************************)
(* C17.  Chunks run strictly one after another: when a posting of a later  *)
(* chunk has been through the in-batch check or has a task, every posting  *)
(* of every earlier chunk has its result collected and no task of an       *)
(* earlier chunk is still running.                                         *)
(***************************************************************************)
C17_ChunksSequential ==
    \A g, h \in Posting :
        (ChunkOf(g) < ChunkOf(h) /\ (Scanned(h) \/ Dispatched(h) \/ events[h] # <<>>)) =>
           /\ Collected(g)
           /\ ~Running(g)

C17_Witness ==
    /\ pc = "gather"
    /\ \E g, h \in Posting :
          /\ ChunkOf(g) < ChunkOf(h)
          /\ Running(h)
          /\ Has(h, "skills_extraction")
          /\ Has(g, "save_job")
          /\ Collected(g)

(***************************************************************************)
(* A step of a pipeline task: posting g was running and its task moved.    *)
(***************************************************************************)
TaskStep(g) == Running(g) /\ wf'[g] # wf[g]

SeenHashesOwnedByLoop ==
    /\ seen_hashes' # seen_hashes =>
          /\ pc \in {"start", "prepare"}
          /\ \A g \in Posting : ~Running(g) /\ events'[g] = events[g]
    /\ (\E g \in Posting : TaskStep(g)) => seen_hashes' = seen_hashes

(***************************************************************************)
(* C18.  The in-batch fingerprint set changes only in the steps of         *)
(* process_batch itself (the clear at entry and the pre-dispatch loop of a *)
(* chunk), and only while no pipeline task is running; no step of a        *)
(* pipeline task changes it.                                               *)
(***************************************************************************)
C18_SeenHashesSequential == [][SeenHashesOwnedByLoop]_vars

C18_Witness ==
    /\ pc = "gather"
    /\ Cardinality(seen_hashes) = 2
    /\ \E g, h \in Posting :
          /\ ChunkOf(g) < ChunkOf(h)
          /\ Has(g, "save_job")
          /\ Running(h)
          /\ Has(h, "skills_matching")

Stopped(h) == h \in Posting /\ wf[h].node \in {END, RAISED, BLOCKED}

(***************************************************************************)
(* C19.  Whatever calls of the other tasks never return, a task that has   *)
(* been dispatched runs on until its workflow ends (END after its last     *)
(* stage, or the stage raised) unless its own call is the one that never   *)
(* returns: a blocked task holds up no sibling.                            *)
(***************************************************************************)
C19_BlockedCallSparesSiblings ==
    \A h \in 1..MaxJobs : (h \in Posting /\ Running(h)) ~> Stopped(h)

C19_Witness ==
    /\ pc = "gather"
    /\ \E g, h \in Posting :
          /\ g < h
          /\ SameChunk(g, h)
          /\ wf[g].node = BLOCKED
          /\ Has(g, "llm:job_scoring")
          /\ wf[h].node = END
          /\ Has(h, "llm:job_scoring")
          /\ Has(h, "db:insert")

(***************************************************************************)
(* The dedup stage of posting g ran and its store query failed.            *)
(***************************************************************************)
DedupFailed(g) == Has(g, "simhash_deduplication") /\ ~Has(g, "db:select")

(***************************************************************************)
(* C20.  When the store query of the dedup stage fails, the posting        *)
(* carries the error "Deduplication failed: ..." and is not a duplicate,   *)
(* no model call, relevance stage or save happens for it, process_batch    *)
(* does not raise, its result is status "error" with that reason, and      *)
(* every other posting gets its own result.                                *)
(***************************************************************************)
C20_StoreFailureIsError ==
    \A g \in Posting :
        DedupFailed(g) =>
           /\ wf[g].state.error = Some("Deduplication failed: unable to open database file")
           /\ ~wf[g].state.is_duplicate
           /\ ModelCalls(g) = {}
           /\ ~Has(g, "job_scoring")
           /\ ~Has(g, "save_job")
           /\ ~Has(g, "db:insert")
           /\ wf[g].node # RAISED
           /\ pc # "raised"
           /\ Collected(g) =>
                  /\ all_results[g].status = "error"
                  /\ all_results[g].reason =
                         <<"Deduplication failed: unable to open database file", <<>>>>
                  /\ \A h \in Posting :
                         Collected(h) => all_results[h] = OwnResult(h)

C20_Witness ==
    /\ pc = "returned"
    /\ \E g, h \in Posting :
          /\ DedupFailed(g)
          /\ Has(g, "heuristic_filter")
          /\ all_results[g].status = "error"
          /\ SameChunk(g, h)
          /\ Has(h, "db:select")
          /\ Has(h, "db:insert")
          /\ all_results[h].status = "accepted"

(***************************************************************************)
(* C21.  With the resume file missing, every posting that passed the gate  *)
(* ends with a pipeline error and status "error" (the reason is "Resume    *)
(* file not found" when the stage has its credential), the relevance model *)
(* is never called, the save stage that follows inserts nothing, and the   *)
(* store stays as it was.                                                  *)
(***************************************************************************)
C21_MissingResume ==
    RESUME_FILE \notin files =>
        /\ db = {}
        /\ \A g \in Posting :
               /\ ~Has(g, "llm:job_scoring")
               /\ ~Has(g, "db:insert")
               /\ Has(g, "job_scoring") =>
                      /\ EndsInError(g)
                      /\ wf[g].state.llm_score = None
                      /\ api_key["job_scoring"] =>
                             /\ wf[g].state.error = Some("Resume file not found")
                             /\ Collected(g) =>
                                    all_results[g].reason = <<"Resume file not found", <<>>>>

C21_Witness ==
    /\ pc = "returned"
    /\ RESUME_FILE \notin files
    /\ CANDIDATE_SKILLS_FILE \in files
    /\ api_key["job_scoring"]
    /\ \E g \in Posting :
          /\ Has(g, "llm:skills_matching")
          /\ Has(g, "job_scoring")
          /\ Has(g, "save_job")
          /\ all_results[g].status = "error"
          /\ all_results[g].reason = <<"Resume file not found", <<>>>>

(***************************************************************************)
(* C22.  A missing candidate skill list is fatal to the matching stage:    *)
(* every posting whose matching stage found the file absent ends with a    *)
(* pipeline error and status "error".                                      *)
(***************************************************************************)
C22_MissingSkillsFileIsFatal ==
    \A g \in Posting :
        (Has(g, "warn:candidate_skills_missing") /\ Collected(g)) => EndsInError(g)

CallsOf(g, call) == {i \in 1..Len(events[g]) : events[g][i] = call}

TransportFailure(g) ==
    \/ Has(g, "failed:skills_extraction")
    \/ Has(g, "failed:skills_matching")
    \/ Has(g, "failed:job_scoring")

(***************************************************************************)
(* C23.  When the model call of a stage fails and its fallback, if it has  *)
(* one, fails too, the posting carries that stage's error, no later stage  *)
(* calls the model for it, nothing is saved for it, process_batch does not *)
(* raise, the posting is reported "error", and every other posting gets    *)
(* its own result.                                                         *)
(***************************************************************************)
C23_TransportError ==
    \A g \in Posting :
        /\ Has(g, "failed:skills_extraction") =>
               /\ wf[g].state.error = Some("Skills extraction failed: Connection error.")
               /\ Cardinality(CallsOf(g, "llm:skills_extraction")) = 2
               /\ ~Has(g, "llm:skills_matching")
               /\ ~Has(g, "llm:job_scoring")
        /\ Has(g, "failed:skills_matching") =>
               /\ wf[g].state.error = Some("Skills matching failed: Connection error.")
               /\ Cardinality(CallsOf(g, "llm:skills_matching")) = 2
               /\ ~Has(g, "llm:job_scoring")
        /\ Has(g, "failed:job_scoring") =>
               /\ wf[g].state.error = Some("Job scoring failed: Connection error.")
               /\ Cardinality(CallsOf(g, "llm:job_scoring")) = 1
        /\ TransportFailure(g) =>
               /\ ~Has(g, "db:insert")
               /\ wf[g].node # RAISED
               /\ pc # "raised"
               /\ Collected(g) =>
                      /\ all_results[g].status = "error"
                      /\ \A h \in Posting :
                             Collected(h) => all_results[h] = OwnResult(h)

C23_Witness ==
    /\ pc = "returned"
    /\ \E g, h \in Posting :
          /\ SameChunk(g, h)
          /\ Has(g, "failed:skills_matching")
          /\ Has(g, "heuristic_filter")
          /\ all_results[g].status = "error"
          /\ Has(h, "failed:job_scoring")
          /\ Has(h, "save_job")
          /\ all_results[h].status = "error"
          /\ all_results[h].reason # all_results[g].reason

(***************************************************************************)
(* C24: the fingerprint is a function of the normalized company, title and *)
(* description.  Coerced reads the claim's normalization: an absent or     *)
(* non-string value becomes the empty string, a string is lower-cased and  *)
(* trimmed.  Two postings of a chunk with the same coerced fields would    *)
(* have the same fingerprint, and the later one would be a batch           *)
(* duplicate.  The code keeps str(value) of a non-string value that is not *)
(* None, NaN or NaT, so 42 and None give different fingerprints.           *)
(***************************************************************************)
RawFields == {"company", "title", "description"}

Coerced(job) ==
    [f \in RawFields |->
        IF f \in DOMAIN job /\ job[f].type = "str" THEN Strip(Lower(job[f].str)) ELSE <<>>]

Missing(value) == value.type = "NoneType" \/ value = NaNValue

Normalized(job) ==
    [f \in RawFields |->
        IF f \notin DOMAIN job \/ Missing(job[f]) THEN <<>> ELSE Strip(Lower(job[f].str))]

BatchDuplicate(h) ==
    /\ pc = "gather"
    /\ chunk_results[h] = Some(BatchDuplicateResult)

Counts(g) ==
    LET match_result == Val(wf[g].state.match_result)
    IN  [m |-> Len(match_result.matched), p |-> Len(match_result.partial),
         x |-> Len(match_result.missing),
         t |-> Len(match_result.matched) + Len(match_result.partial)
               + Len(match_result.missing)]

Distance(a, b) == IF a < b THEN b - a ELSE a - b

C25_HeuristicScore ==
    \A g \in Posting :
        wf[g].state.match_result # None /\ wf[g].state.heuristic_score # None =>
            LET c == Counts(g)
                score == Val(wf[g].state.heuristic_score)
            IN  /\ c.t = 0 => score = 0
                /\ c.t > 0 => Distance(2 * c.t * score, 1000 * (2 * c.m + c.p)) <= c.t
                /\ score \in 0..1000
                /\ (c.m = 2 /\ c.p = 1 /\ c.x = 1) => score = 625

C25_Witness ==
    \E g \in Posting :
        /\ wf[g].state.match_result # None
        /\ Counts(g) = [m |-> 2, p |-> 1, x |-> 1, t |-> 4]
        /\ wf[g].state.heuristic_score = Some(625)
        /\ Has(g, "heuristic_filter")
        /\ GateThreshold(jobs[g]) = Some(625)
        /\ wf[g].state.should_continue

(***************************************************************************)
(* C26: after the relevance-scoring stage completed without error,         *)
(* llm_score is 0 or in 1..10, and a score of 0, given when no score       *)
(* pattern is found, comes with the reasoning "Unable to parse response".  *)
(* The reasoning pattern is searched on its own: a reply with a reasoning  *)
(* and no score gives 0 with that reasoning.                               *)
(***************************************************************************)
ScoringAnswered(g) == Has(g, "llm:job_scoring") /\ ~Has(g, "failed:job_scoring")

Clamped(n) == IF n < 1 THEN 1 ELSE IF n > 10 THEN 10 ELSE n

C26_ZeroComesWithSentinel ==
    \A g \in Posting :
        ScoringAnswered(g) =>
            /\ wf[g].state.llm_score # None
            /\ Val(wf[g].state.llm_score) \in 0..10
            /\ wf[g].state.llm_score = Some(0) =>
                   wf[g].state.llm_reasoning = Some("Unable to parse response")

(***************************************************************************)
(* C26, amended: after the relevance-scoring stage completed without       *)
(* error, llm_score is 0 or in 1..10: the number n of the score pattern    *)
(* clamped to max(1, min(10, n)), or 0 when there is no score pattern; the *)
(* reasoning is the text of the reasoning pattern, or "Unable to parse     *)
(* response" when there is no reasoning pattern, whatever the score.       *)
(***************************************************************************)
C26_ScoreClampedOrZero ==
    \A g \in Posting :
        ScoringAnswered(g) =>
            /\ wf[g].state.error = None
            /\ wf[g].state.llm_score # None
            /\ Val(wf[g].state.llm_score) \in 0..10
            /\ \E reply \in ScoreContents :
                  /\ ~reply.raises
                  /\ wf[g].state.llm_score =
                         Some(IF reply.score = None THEN 0 ELSE Clamped(Val(reply.score)))
                  /\ wf[g].state.llm_reasoning =
                         IF reply.reasoning = None THEN Some("Unable to parse response")
                         ELSE reply.reasoning

C26_Witness ==
    \E g, h \in Posting :
        /\ ScoringAnswered(g) /\ ScoringAnswered(h)
        /\ wf[g].state.llm_score = Some(10)
        /\ wf[g].state.llm_reasoning = Some("two hundred and fifty")
        /\ wf[h].state.llm_score = Some(0)
        /\ wf[h].state.llm_reasoning = Some("no number given")
        /\ Collected(g) /\ Collected(h)

(***************************************************************************)
(* C27: the cross-run check flags a posting as duplicate if and only if    *)
(* some stored record with a fingerprint, scraped within the last 60 days, *)
(* is at most 6 bits from the posting's fingerprint: 6 bits flag, 7 bits   *)
(* or a record of 61 days ago do not.                                      *)
(***************************************************************************)
NearRecent(g) ==
    \E r \in db :
        /\ r.job_hash # None
        /\ Today - r.date_scraped <= 60
        /\ BitsApart(jobs[g].text, r.text) <= 6

C27_FlaggedIffNearRecentRecord ==
    \A g \in Posting :
        Has(g, "db:select") =>
            /\ wf[g].state.is_duplicate <=> NearRecent(g)
            /\ wf[g].state.is_duplicate <=> wf[g].node = END

C27_Witness ==
    /\ Len(jobs) = 2
    /\ jobs[1].text = "B" /\ jobs[2].text = "C"
    /\ \E r \in db : r.text = "A" /\ Today - r.date_scraped = 60 /\ r.job_hash # None
    /\ \E r \in db : r.text = "B" /\ Today - r.date_scraped = 61 /\ r.job_hash # None
    /\ \E r \in db : r.text = "C" /\ r.job_hash = None
    /\ ~\E r \in db : r.text = "C" /\ r.job_hash # None
    /\ Has(1, "db:select") /\ wf[1].state.is_duplicate
    /\ Has(2, "db:select") /\ ~wf[2].state.is_duplicate

(***************************************************************************)
(* C28: a posting whose description has fewer than 100 characters makes no *)
(* model call in the extraction stage and none in the matching stage,      *)
(* whatever credentials are configured, and reaches the gate without error *)
(* with an empty skill list, an empty match result and heuristic score 0;  *)
(* a posting whose description has exactly 100 characters calls the        *)
(* extraction model.                                                       *)
(***************************************************************************)
Chars(g) == DescriptionLen(jobs[g].text)

EmptyHanded(g) ==
    /\ wf[g].state.extracted_skills = Some(<<>>)
    /\ wf[g].state.match_result = Some([matched |-> <<>>, partial |-> <<>>, missing |-> <<>>])
    /\ wf[g].state.heuristic_score = Some(0)

C28_ShortDescriptionSkipsModel ==
    \A g \in Posting :
        /\ Chars(g) < 100 =>
              /\ ~Has(g, "llm:skills_extraction")
              /\ ~Has(g, "llm:skills_matching")
              /\ (Has(g, "skills_matching") /\ ~DedupFailed(g)) =>
                     /\ wf[g].node # END \/ Has(g, "heuristic_filter")
                     /\ wf[g].state.error = None \/ Has(g, "job_scoring")
              /\ (Has(g, "heuristic_filter") /\ ~DedupFailed(g)) => EmptyHanded(g)
        /\ (/\ Chars(g) = 100
            /\ Has(g, "skills_extraction")
            /\ ~DedupFailed(g)
            /\ api_key["skills_extraction"]) => Has(g, "llm:skills_extraction")

C28_Witness ==
    \E g, h \in Posting :
        /\ Chars(g) = 99 /\ Chars(h) = 100
        /\ ~api_key["skills_matching"] /\ api_key["skills_extraction"]
        /\ Has(g, "heuristic_filter") /\ EmptyHanded(g)
        /\ wf[g].state.error = None
        /\ ModelCalls(g) = {}
        /\ Has(h, "llm:skills_extraction")

(***************************************************************************)
(* C29: once the pipeline state of a posting carries an error, a step of   *)
(* the extraction, matching, gate or scoring stage leaves every field of   *)
(* the state as it was (the error message and should_continue = FALSE      *)
(* included), makes no model call and raises nothing.                      *)
(***************************************************************************)
SkippingStages == {"skills_extraction", "skills_matching", "heuristic_filter", "job_scoring"}

StepAfterError(g) ==
    /\ wf[g].state.error # None
    /\ wf[g].node \in SkippingStages
    /\ wf'[g] # wf[g]

ScoringSkips(g) ==
    \A client, resume_exists \in BOOLEAN, reply \in ScoreReplies :
        /\ job_scoring(wf[g].state, client, resume_exists, reply) = wf[g].state
        /\ ScoringCalls(wf[g].state, client, resume_exists) = <<>>

C29_StagesPassErrorThrough ==
    [][\A g \in Posting :
          /\ wf[g].state.error # None => ScoringSkips(g)
          /\ StepAfterError(g) =>
                /\ wf'[g].state = wf[g].state
                /\ ~wf'[g].state.should_continue
                /\ wf'[g].exc = None
                /\ wf'[g].node \in SkippingStages \cup {END}
                /\ Len(events'[g]) = Len(events[g]) + 1
                /\ events'[g][Len(events'[g])] = wf[g].node]_vars

C29_Witness ==
    \E g \in Posting :
        /\ DedupFailed(g)
        /\ Has(g, "skills_extraction") /\ Has(g, "skills_matching")
        /\ Has(g, "heuristic_filter")
        /\ wf[g].node = END
        /\ Len(events[g]) = 4
        /\ wf[g].state =
               [InitialState EXCEPT
                   !.job_hash = Some(compute_simhash(jobs[g])),
                   !.error = Some("Deduplication failed: unable to open database file"),
                   !.should_continue = FALSE]

(***************************************************************************)
(* C30: a posting whose relevance-scoring stage set an error (credential   *)
(* missing, resume missing, or the model call failed) is never written to  *)
(* the store, although its workflow goes on to the save stage and ends     *)
(* there.                                                                  *)
(***************************************************************************)
ScoringErrors ==
    {"LLM client not configured", "Resume file not found",
     "Job scoring failed: Connection error."}

ScoringSetError(g) == Has(g, "job_scoring") /\ wf[g].state.error # None

C30_ScoringErrorNeverSaved ==
    \A g \in Posting :
        ScoringSetError(g) =>
            /\ PassedGate(g)
            /\ Val(wf[g].state.error) \in ScoringErrors
            /\ ~Has(g, "db:insert")
            /\ wf[g].node \in {"save_job", END}
            /\ wf[g].node = END => Has(g, "save_job")
            /\ Collected(g) => all_results[g].status = "error"

C30_Witness ==
    \E g, h \in Posting :
        /\ Has(g, "failed:job_scoring")
        /\ wf[g].state.error = Some("Job scoring failed: Connection error.")
        /\ Has(g, "save_job") /\ ~Has(g, "db:insert")
        /\ "job_url" \in DOMAIN jobs[g]
        /\ Collected(g)
        /\ Has(h, "db:insert")
        /\ db # {}

(***************************************************************************)
(* C31, as stated: when the relevance reply has no parseable score and     *)
(* min_score is 0, the posting is reported "accepted" and the record       *)
(* written for it has llm_score 0 and the reasoning "Unable to parse       *)
(* response".  Taken for a posting that is the only one of its call to     *)
(* have written to the store.                                              *)
(***************************************************************************)
Unscored(g) == ScoringAnswered(g) /\ wf[g].state.llm_score = Some(0)

OnlyWriter(g) ==
    /\ Has(g, "db:insert")
    /\ \A h \in Posting \ {g} : ~Has(h, "db:insert")

SaveStep(g) == wf[g].node = "save_job" /\ wf'[g].node = END

WrittenRecord(g) ==
    \E r \in db' :
        /\ r.job_url = jobs[g].job_url
        /\ r.llm_score = 0
        /\ r.llm_reasoning = Val(wf[g].state.llm_reasoning)

InSecondCall == \E g \in Posting : Has(g, SECOND_CALL)

C32_FingerprintSetPerCall ==
    /\ (pc = "prepare" /\ all_results = <<>>) => seen_hashes = {}
    /\ pc = "returned" =>
          seen_hashes = {compute_simhash(jobs[g]) : g \in Posting}
    /\ \A g \in Posting :
          (InSecondCall /\ Scanned(g)) =>
              /\ Dispatched(g) <=> FirstWithFingerprint(g)
              /\ (Collected(g) /\ FirstWithFingerprint(g)) =>
                     /\ all_results[g].reason # <<"Duplicate in current batch", <<>>>>
                     /\ all_results[g].status = "duplicate" =>
                            /\ Has(g, "db:select")
                            /\ all_results[g].reason = <<"Duplicate in database", <<>>>>

C32_Witness ==
    /\ InSecondCall
    /\ pc = "returned"
    /\ Len(jobs) = 2
    /\ compute_simhash(jobs[1]) # compute_simhash(jobs[2])
    /\ "job_url" \notin DOMAIN jobs[2]
    /\ all_results[1].reason = <<"Duplicate in database", <<>>>>
    /\ all_results[2].status = "accepted"
    /\ Has(2, "llm:job_scoring")

(***************************************************************************)
(* C33: when process_batch has returned, no two records that the call      *)
(* wrote to the store have fingerprints 6 bits or fewer apart, whether     *)
(* their postings were in the same chunk or in different chunks.           *)
(***************************************************************************)
WrittenByCall ==
    {r \in db : \E g \in Posting :
                    /\ Has(g, "db:insert")
                    /\ r.job_url = jobs[g].job_url}

C33_NoNearDuplicateRecords ==
    pc = "returned" =>
        \A r1, r2 \in WrittenByCall :
            r1 # r2 => BitsApart(r1.text, r2.text) > 6

(***************************************************************************)
(* C34: for every final pipeline state a workflow reaches, the status that *)
(* process_single_job_async computes from it is the status the batch       *)
(* formatter computes from the same state with the same min_score and      *)
(* heuristic_threshold, and the formatter does not raise on it.            *)
(***************************************************************************)
C34_SingleAndBatchClassifyAlike ==
    (pc = "returned" /\ wf[1].node = END) =>
        /\ ~FormatRaises(wf[1].state, min_score, heuristic_threshold)
        /\ all_results[1].status =
               format_result(wf[1].state, min_score, heuristic_threshold).status
        /\ all_results[1].status \in Statuses

C34_Witness ==
    /\ pc = "returned"
    /\ wf[1].node = END
    /\ min_score = 10
    /\ wf[1].state.llm_score = Some(9)
    /\ all_results[1].status = "low_score"
    /\ format_result(wf[1].state, min_score, heuristic_threshold).status = "low_score"
    /\ ~Has(1, "db:insert")

(***************************************************************************)
(* C35: when every model call and every store call returns or raises,      *)
(* process_batch comes to an end (it returns or raises) for every job list *)
(* and every batch_size of 1 or more, and a posting causes at most five    *)
(* model calls: at most two in extraction, two in matching, one in         *)
(* scoring, each stage running at most once.                               *)
(***************************************************************************)
Times(g, e) == Cardinality({i \in 1..Len(events[g]) : events[g][i] = e})

CallBudget ==
    \A g \in Posting :
        /\ Times(g, "llm:skills_extraction") <= 2
        /\ Times(g, "llm:skills_matching") <= 2
        /\ Times(g, "llm:job_scoring") <= 1
        /\ Cardinality(ModelCalls(g)) <= 5
        /\ \A stage \in StageNames : Times(g, stage) <= 1

Terminated == pc \in {"returned", "raised"}

C35_TerminatesWithinCallBudget == <>Terminated /\ []CallBudget

C35_Witness ==
    /\ pc = "returned"
    /\ batch_size = 1
    /\ Len(jobs) = MaxJobs
    /\ \E g \in Posting :
          /\ Times(g, "llm:skills_extraction") = 2
          /\ Times(g, "llm:skills_matching") = 2
          /\ Times(g, "llm:job_scoring") = 1

(***************************************************************************)
(* C36: process_batch never raises: for every job list, the empty one      *)
(* included, it returns a list with one result per job.                    *)
(***************************************************************************)
C36_ReturnsForEveryList ==
    /\ pc # "raised"
    /\ pc = "returned" => Len(all_results) = Len(jobs)

(***************************************************************************)
(* C37: insert_job called with a job_url that is already stored leaves the *)
(* row's id, job_url, date_scraped and archived as they were, leaves every *)
(* updatable column that is not in the dict as it was, writes the          *)
(* updatable columns that are in the dict, and leaves every other row as   *)
(* it was; so the row is inside the 60-day window after the call exactly   *)
(* if it was before.                                                       *)
(***************************************************************************)
UpdatableColumns ==
    {"text", "llm_score", "llm_reasoning", "job_hash", "extracted_skills",
     "matched_skills", "heuristic_score"}

SameRowUpdated(old, new, job_data) ==
    /\ DOMAIN new = DOMAIN old
    /\ new.id = old.id
    /\ new.job_url = old.job_url
    /\ new.date_scraped = old.date_scraped
    /\ new.archived = old.archived
    /\ (Today - new.date_scraped <= 60) <=> (Today - old.date_scraped <= 60)
    /\ \A c \in UpdatableColumns :
          new[c] = IF c \in DOMAIN job_data THEN job_data[c] ELSE old[c]

C37_UpdateKeepsTheRest ==
    [][(pc = "insert_job" /\ \E r \in db : r.job_url = jobs[1].job_url) =>
          /\ Cardinality(db') = Cardinality(db)
          /\ \A r \in db :
                IF r.job_url = jobs[1].job_url
                THEN \E new \in db' : SameRowUpdated(r, new, jobs[1])
                ELSE r \in db']_vars

C37_Witness ==
    /\ pc = "inserted"
    /\ DOMAIN jobs[1] \cap OptionalKeys = {"llm_score", "date_scraped", "archived"}
    /\ jobs[1].job_url = 1
    /\ Cardinality(db) = 2
    /\ \E r \in db :
          /\ r.job_url = 1 /\ r.id = 4
          /\ r.archived
          /\ r.date_scraped = Today - 61
          /\ r.llm_score = 9
          /\ r.text = "A"
          /\ r.job_hash = Some(<<0>>)
          /\ r.llm_reasoning = "strong fit"

====
